---- MODULE Spec2Model ----
(***************************************************************************)
(* A model of tpprl: the teacher's rollout (Scenario, Student), the        *)
(* teacher's training loop (ExpRecurrentTeacher.train_many), the           *)
(* broadcaster's unrolled batch graph (ExpRecurrentTrainer) and the        *)
(* broadcaster's sampling step (ExpRecurrentBroadcaster).                  *)
(*                                                                         *)
(* Numbers.  The program computes in floating point; the model computes in *)
(* integers.  The hidden state has one dimension (H = 1).  tanh is         *)
(* modelled by Tanh, an odd, monotone, saturating map with Tanh(0) = 0.    *)
(* exp is modelled by Exp, an exact power of two shifted by ExpShift, so   *)
(* that log(exp(x)) = x holds and the divisions by wt and by 2*wt that the *)
(* closed forms make are exact.  Random draws are nondeterministic         *)
(* choices.                                                                *)
(***************************************************************************)
EXTENDS Integers, Sequences, FiniteSets, TLC

(***************************************************************************)
(* Bounds of the model.                                                    *)
(***************************************************************************)
MaxGap == 2        \* the largest gap a sampler draws beyond its origin
MaxLen == 2        \* events after which the sampler's draws leave the horizon
MaxIters == 2      \* optimizer steps explored
TanhSat == 2       \* the value at which the model's tanh saturates

(***************************************************************************)
(* The options and inputs the model explores.                              *)
(***************************************************************************)
Items == {0, 1}          \* np.arange(num_items)
EndTimes == {1, 2}       \* end_time, the horizon T
BatchSizes == {1, 2}         \* batch_size
WtValues == {-2, -1, 0, 1}
Seeds == {0, 1}
\* The largest horizon explored: a gap that leaves every horizon.
Beyond == CHOOSE t \in EndTimes : \A u \in EndTimes : u <= t

(***************************************************************************)
(* Program constants.                                                      *)
(***************************************************************************)
MAX_EVENTS == 100000
\* max_events=None becomes float('inf'): no cap.
inf == -1
\* Student.review clamps ns to [1e-6, 1e2]; the model counts ns in units of 1e-6.
NsMin == 1
NsMax == 100000000
NsOne == 1000000

VARIABLES
    tf_vars,      \* the session's values of the teacher's trainable variables
    opts,         \* the options the teacher was constructed with: the parameters'
                  \* initial values, batch_size, end_time
    global_step,  \* the teacher's global_step variable
    tm,           \* train_many's frame: pc, seed_start, iter_idx, num_iters, scenarios
    scenario,     \* the Scenario being constructed or run, and run()'s locals
    trainer,      \* an ExpRecurrentTrainer: its options, parameters and src_embed_map
    batch_df,     \* the batch of simulation dataframes given to the trainer
    feed,         \* what ExpRecurrentTrainer.get_feed_dict returned for batch_df
    out,          \* the values a session run of the trainer's graph produced
    broadcaster,  \* a broadcaster created by a trainer: its fields and its sampler
    ret,          \* the outcome of the broadcaster's latest get_next_interval call
    f_d,          \* the values one session run of the teacher's graph is fed with
    sgd,          \* what that session run computed: LL, loss, the gradient bundle
    restored,     \* the latest call of ExpRecurrentTeacher.restore and its outcome
    argv,         \* exp_run: the command line's options and the rows of in_csv
    launcher,     \* exp_run.run's frame: its position, its local q, what it printed
                  \* and what it executed
    accessed,     \* the latest call of a Scenario method by a caller, and its outcome
    student_obj,  \* a Student on its own, and its latest review
    t_feed,       \* what the teacher's get_feed_dict returned for a list of scenarios
    calc,         \* ExpRecurrentTeacher.calc_u's frame: its arguments, cursors and u
    policy        \* cal_optimal_policy's frame: cost_list, used_interval_list, counters

teacher_vars == <<tf_vars, opts, global_step, tm, scenario>>
trainer_vars == <<trainer, batch_df, feed, out>>
broadcaster_vars == <<broadcaster, ret>>
combiner_vars == <<f_d, sgd>>
restore_vars == <<restored>>
launcher_vars == <<argv, launcher>>
other_vars == <<accessed, student_obj, t_feed, calc, policy>>
vars == <<teacher_vars, trainer_vars, broadcaster_vars, combiner_vars, restore_vars,
          launcher_vars, other_vars>>
\* The variables outside the teacher's rollouts and training loop, outside the
\* trainer's batch graph and outside the broadcaster.
outside_teacher ==
    <<trainer_vars, broadcaster_vars, combiner_vars, restore_vars, launcher_vars, other_vars>>
outside_trainer ==
    <<teacher_vars, broadcaster_vars, combiner_vars, restore_vars, launcher_vars, other_vars>>
outside_broadcaster ==
    <<teacher_vars, trainer_vars, combiner_vars, restore_vars, launcher_vars, other_vars>>
outside_combiner ==
    <<trainer_vars, broadcaster_vars, restore_vars, launcher_vars, other_vars>>

\* The values of a part of the program that is not in use.
NoTrainer == [pc |-> "none"]
NoFeed == [pc |-> "none"]
NoOut == [pc |-> "none"]
TrainerUnused ==
    trainer = NoTrainer /\ batch_df = <<>> /\ feed = NoFeed /\ out = NoOut
NoBroadcaster == [pc |-> "none"]
NoRet == [kind |-> "none"]
BroadcasterUnused == broadcaster = NoBroadcaster /\ ret = NoRet
NoFd == [pc |-> "none"]
NoSgd == [pc |-> "none"]
CombinerUnused == f_d = NoFd /\ sgd = NoSgd
NoRestore == [pc |-> "none"]
RestoreUnused == restored = NoRestore
NoArgv == [pc |-> "none"]
NoLauncher == [pc |-> "none"]
LauncherUnused == argv = NoArgv /\ launcher = NoLauncher
NoAccessed == [pc |-> "none"]
NoStudent == [pc |-> "none"]
NoTFeed == [pc |-> "none"]
NoCalc == [pc |-> "none"]
NoPolicy == [pc |-> "none"]
OthersUnused ==
    /\ accessed = NoAccessed /\ student_obj = NoStudent /\ t_feed = NoTFeed
    /\ calc = NoCalc /\ policy = NoPolicy

Min(a, b) == IF a < b THEN a ELSE b
Max(a, b) == IF a > b THEN a ELSE b

RECURSIVE SumSeq(_)
SumSeq(s) == IF s = <<>> THEN 0 ELSE Head(s) + SumSeq(Tail(s))

(***************************************************************************)
(* The parameter values the model explores.  Wm is the item embedding (one *)
(* row per item), the rest are scalars since H = 1.                        *)
(***************************************************************************)
ParamSets ==
    { [Wm |-> [i \in Items |-> IF i % 2 = 0 THEN 1 ELSE -1],
       Wh |-> 1, Wt |-> -1, Wr |-> 1, Bh |-> 0, Vy |-> [i \in Items |-> 0],
       vt |-> 1, wt |-> w, bt |-> 1] : w \in WtValues }

\* np.tanh / tf.nn.tanh
Tanh(x) == IF x > TanhSat THEN TanhSat ELSE IF x < -TanhSat THEN -TanhSat ELSE x

(***************************************************************************)
(* Student                                                                 *)
(***************************************************************************)
\* The rates alphas[item], betas[item] of scenario_opts, in percent.
alphas == [i \in Items |-> 50]
betas == [i \in Items |-> 100]

Student__init__(n_0s, student_alphas, student_betas, seed) ==
    [ns |-> n_0s, alphas |-> student_alphas, betas |-> student_betas, seed |-> seed,
     last_review_times |-> [i \in Items |-> 0]]

\* Student.recall: RS.rand() < exp(-ns[item] * (t - last_review_times[item])).
\* rand() lies in [0, 1), so the outcome is True when the exponent is 0.
Student_recall(student, item, t) ==
    IF student.ns[item] * (t - student.last_review_times[item]) = 0
    THEN {TRUE} ELSE {TRUE, FALSE}

\* n * percent / 100, rounded down, without leaving TLC's integers.
MulPercent(n, percent) ==
    (n \div 100) * percent + ((n % 100) * percent) \div 100

\* A variant of Student.review without the clamp.
Student_review_unclamped(student, item, cur_time, recall) ==
    LET scaled == IF recall
                  THEN MulPercent(student.ns[item], 100 - student.alphas[item])
                  ELSE MulPercent(student.ns[item], 100 + student.betas[item])
    IN [student EXCEPT !.ns[item] = scaled,
                       !.last_review_times[item] = cur_time]

\* Student.review, given the outcome of self.recall(item, cur_time).
Student_review(student, item, cur_time, recall) ==
    LET scaled == IF recall
                  THEN MulPercent(student.ns[item], 100 - student.alphas[item])
                  ELSE MulPercent(student.ns[item], 100 + student.betas[item])
        clamped == Min(Max(NsMin, scaled), NsMax)
    IN [student EXCEPT !.ns[item] = clamped,
                       !.last_review_times[item] = cur_time]

(***************************************************************************)
(* ExpCDFSampler (exp_sampler.py)                                          *)
(***************************************************************************)
\* The constructor: c = vt . init_h + bt, the time origin is t_min.
ExpCDFSampler__init__(params, t_min, seed) ==
    [c |-> params.vt * params.init_h + params.bt, t_min |-> t_min,
     wt |-> params.wt, vt |-> params.vt, bt |-> params.bt, seed |-> seed]

\* The constructor's precondition: a decaying intensity.
ExpCDFSampler_valid(params) == params.wt < 0

\* generate_sample: the next absolute event time, never before the origin.
\* n is the number of events drawn so far; from MaxLen events on the draws
\* fall beyond every horizon explored.
ExpCDFSampler_generate_sample(sampler, n) ==
    IF n >= MaxLen THEN {sampler.t_min + Beyond}
    ELSE {sampler.t_min + d : d \in 0 .. MaxGap}

\* register_event: c = vt . new_h + bt, the origin moves to the event's time.
ExpCDFSampler_register_event(sampler, time, new_h, own_event) ==
    [sampler EXCEPT !.c = sampler.vt * new_h + sampler.bt, !.t_min = time]

(***************************************************************************)
(* Scenario                                                                *)
(***************************************************************************)
NoScenario == [pc |-> "none"]

Scenario__init__(seed, p, init_h, T) ==
    LET params == [wt |-> p.wt, vt |-> p.vt, bt |-> p.bt, init_h |-> init_h]
    IN [pc |-> "created",
        seed |-> seed,
        student |-> Student__init__([i \in Items |-> NsOne], alphas, betas, seed * 2),
        Wm |-> p.Wm, Wh |-> p.Wh, Wr |-> p.Wr, Wt |-> p.Wt, Bh |-> p.Bh, Vy |-> p.Vy,
        inited |-> FALSE,
        cur_h |-> init_h,
        h_heap |-> <<init_h>>, cur_ref |-> 1, h_refs |-> <<>>,
        T |-> T,
        last_time |-> -1,
        c_is |-> <<>>, hidden_states |-> <<>>, time_deltas |-> <<>>,
        recalls |-> <<>>, items |-> <<>>,
        params |-> params,
        exp_sampler |-> ExpCDFSampler__init__(params, 0, seed + 1),
        max_events |-> 0, idx |-> 0, t |-> 0, t_next |-> 0, item_next |-> 0]

\* A variant that leaves out the sampler's current c.
get_all_c_is_short(s) == s.c_is

get_all_c_is(s) == s.c_is \o <<s.exp_sampler.c>>

get_last_interval(s) == s.T - s.last_time

get_all_time_deltas(s) == s.time_deltas \o <<s.T - s.last_time>>

get_all_hidden_states(s) == s.hidden_states \o <<s.cur_h>>

get_num_events(s) == Len(s.c_is)

\* The value update_hidden_state returns, given the outcome of the review.
update_hidden_state(s, item, t, time_delta, recall) ==
    Tanh(s.Wm[item] + s.Wh * s.cur_h + s.Wr * (IF recall THEN 1 ELSE 0)
         + s.Wt * time_delta + s.Bh)

\* A variant whose loop also takes a candidate at the horizon itself.
run_continues_closed(s) ==
    (s.max_events = inf \/ s.idx < s.max_events) /\ s.t_next <= s.T

\* The loop condition of run().
run_continues(s) ==
    (s.max_events = inf \/ s.idx < s.max_events) /\ s.t_next < s.T

\* A variant that writes the new hidden state into the array cur_h refers to.
new_hidden_ref_in_place(s) == s.cur_ref

\* np.tanh(...) returns a newly allocated array: the reference cur_h is rebound to.
new_hidden_ref(s) == Len(s.h_heap) + 1

\* The arrays of the hidden states after h_new is stored at reference r.
store_hidden(heap, r, h_new) ==
    IF r > Len(heap) THEN Append(heap, h_new) ELSE [heap EXCEPT ![r] = h_new]

\* A variant that takes the snapshots of c and of the hidden state after the
\* event's update.
run_body_late_snapshot(s, recall, t_next, it_next) ==
    LET time_delta == s.t_next - s.t
        t_new == s.t_next
        s1 == [s EXCEPT !.idx = s.idx + 1,
                        !.items = Append(s.items, s.item_next),
                        !.time_deltas = Append(s.time_deltas, time_delta),
                        !.last_time = s.t,
                        !.t = t_new]
        h_new == update_hidden_state(s1, s.item_next, t_new, time_delta, recall)
        r == new_hidden_ref(s1)
        sampler == ExpCDFSampler_register_event(s1.exp_sampler, t_new, h_new, TRUE)
        s2 == [s1 EXCEPT !.student = Student_review(s1.student, s.item_next, t_new, recall),
                         !.recalls = Append(s1.recalls, IF recall THEN 1 ELSE 0),
                         !.cur_h = h_new,
                         !.exp_sampler = sampler,
                         !.h_heap = store_hidden(s1.h_heap, r, h_new),
                         !.cur_ref = r,
                         !.h_refs = Append(s.h_refs, r),
                         !.c_is = Append(s.c_is, sampler.c),
                         !.hidden_states = Append(s.hidden_states, h_new)]
    IN [s2 EXCEPT !.t_next = t_next, !.item_next = it_next]

\* The body of run()'s loop, for one outcome of the review and one draw of
\* the next candidate (t_next, item_next).
run_body(s, recall, t_next, it_next) ==
    LET time_delta == s.t_next - s.t
        t_new == s.t_next
        s1 == [s EXCEPT !.idx = s.idx + 1,
                        !.items = Append(s.items, s.item_next),
                        !.c_is = Append(s.c_is, s.exp_sampler.c),
                        !.hidden_states = Append(s.hidden_states, s.cur_h),
                        !.h_refs = Append(s.h_refs, s.cur_ref),
                        !.time_deltas = Append(s.time_deltas, time_delta),
                        !.last_time = s.t,
                        !.t = t_new]
        h_new == update_hidden_state(s1, s.item_next, t_new, time_delta, recall)
        r == new_hidden_ref(s1)
        s2 == [s1 EXCEPT !.student = Student_review(s1.student, s.item_next, t_new, recall),
                         !.recalls = Append(s1.recalls, IF recall THEN 1 ELSE 0),
                         !.cur_h = h_new,
                         !.h_heap = store_hidden(s1.h_heap, r, h_new),
                         !.cur_ref = r,
                         !.exp_sampler =
                             ExpCDFSampler_register_event(s1.exp_sampler, t_new, h_new, TRUE)]
    IN [s2 EXCEPT !.t_next = t_next, !.item_next = it_next]

(***************************************************************************)
(* mk_scenario_from_teacher / run_scenario                                 *)
(***************************************************************************)
\* A variant that reads the constructor's options, as mk_scenario_from_opts does.
teacher_params_stale == opts.params

\* The parameter values mk_scenario_from_teacher reads: the session's.
teacher_params == tf_vars

mk_scenario_from_teacher(seed) ==
    IF ExpCDFSampler_valid(teacher_params)
    THEN Scenario__init__(seed, teacher_params, 0, opts.end_time)
    ELSE [pc |-> "failed"]

TmIdle == tm.pc \in {"idle", "done", "failed"}

\* A caller builds a Scenario from the teacher.
MkScenario ==
    /\ TmIdle
    /\ scenario.pc \in {"none", "done", "failed"}
    /\ \E seed \in Seeds : scenario' = mk_scenario_from_teacher(seed)
    /\ UNCHANGED <<tf_vars, opts, global_step, tm>>
    /\ UNCHANGED outside_teacher

\* Scenario.run up to its loop: the first candidate is drawn.
RunBegin(me) ==
    /\ scenario.pc = "created"
    /\ ~scenario.inited
    /\ \E t_next \in ExpCDFSampler_generate_sample(scenario.exp_sampler, 0), it \in Items :
         scenario' = [scenario EXCEPT !.pc = "loop", !.inited = TRUE,
                                      !.max_events = me, !.idx = 0, !.t = 0,
                                      !.t_next = t_next, !.item_next = it]
    /\ UNCHANGED <<tf_vars, opts, global_step, tm>>
    /\ UNCHANGED outside_teacher

\* A caller runs the Scenario with a cap of its choice, or with none.
Run ==
    /\ TmIdle
    /\ \E me \in {inf, 1, MaxLen} : RunBegin(me)

\* One pass of run()'s loop.
RunIter ==
    /\ scenario.pc = "loop"
    /\ run_continues(scenario)
    /\ \E recall \in Student_recall(scenario.student, scenario.item_next, scenario.t_next),
          it \in Items :
         \E t_next \in ExpCDFSampler_generate_sample(
                           [scenario.exp_sampler EXCEPT !.t_min = scenario.t_next],
                           scenario.idx + 1) :
            scenario' = run_body(scenario, recall, t_next, it)
    /\ UNCHANGED <<tf_vars, opts, global_step, tm>>
    /\ UNCHANGED outside_teacher

\* run() returns: its locals are gone.
RunExit ==
    /\ scenario.pc = "loop"
    /\ ~run_continues(scenario)
    /\ scenario' = [scenario EXCEPT !.pc = "done", !.t_next = 0, !.item_next = 0]
    /\ UNCHANGED <<tf_vars, opts, global_step, tm>>
    /\ UNCHANGED outside_teacher

(***************************************************************************)
(* ExpRecurrentTeacher.train_many                                          *)
(***************************************************************************)
TmIdleFrame == [pc |-> "idle", init_seed |-> 0, seed_start |-> 0, iter_idx |-> 0,
                num_iters |-> 0, scenarios |-> <<>>]

\* A variant that starts every call at init_seed, whatever global_step is.
seed_start_from_init(init_seed, step, batch_size) == init_seed

\* seed_start = init_seed + self.sess.run(self.global_step) * self.batch_size
seed_start(init_seed, step, batch_size) == init_seed + step * batch_size

\* train_many(num_iters, init_seed) up to its loop.
TrainManyBegin ==
    /\ TmIdle
    /\ scenario.pc \in {"none", "done", "failed"}
    /\ \E num_iters \in 1 .. MaxIters, init_seed \in Seeds :
         /\ global_step + num_iters <= MaxIters
         /\ tm' = [pc |-> "rollouts", init_seed |-> init_seed,
                   seed_start |-> seed_start(init_seed, global_step, opts.batch_size),
                   iter_idx |-> 0, num_iters |-> num_iters, scenarios |-> <<>>]
    /\ scenario' = NoScenario
    /\ UNCHANGED <<tf_vars, opts, global_step>>
    /\ UNCHANGED outside_teacher

\* run_scenario(self, seed) for the next seed of range(seed_start, seed_end):
\* the Scenario is built; a failure ends train_many.
TrainMkScenario ==
    /\ tm.pc = "rollouts"
    /\ Len(tm.scenarios) < opts.batch_size
    /\ scenario.pc = "none"
    /\ LET s == mk_scenario_from_teacher(tm.seed_start + Len(tm.scenarios))
       IN IF s.pc = "failed"
          THEN tm' = [tm EXCEPT !.pc = "failed"] /\ scenario' = s
          ELSE tm' = tm /\ scenario' = s
    /\ UNCHANGED <<tf_vars, opts, global_step>>
    /\ UNCHANGED outside_teacher

\* run_scenario: scenario.run(max_events=MAX_EVENTS).
TrainRun ==
    /\ tm.pc = "rollouts"
    /\ RunBegin(MAX_EVENTS)

\* run_scenario returns the Scenario into the list of the batch.
TrainCollect ==
    /\ tm.pc = "rollouts"
    /\ scenario.pc = "done"
    /\ tm' = [tm EXCEPT !.scenarios = Append(tm.scenarios, scenario)]
    /\ scenario' = NoScenario
    /\ UNCHANGED <<tf_vars, opts, global_step>>
    /\ UNCHANGED outside_teacher

\* A variant that lets the session run start once one rollout has returned.
scenarios_listed_early == Len(tm.scenarios) >= 1

\* scenarios = [run_scenario(self, seed) for seed in seeds] has been built:
\* one rollout for every seed of the iteration.
scenarios_listed == Len(tm.scenarios) = opts.batch_size

\* The session run of an iteration: the optimizer applies the gradient and
\* increments global_step; the values Adam produces are any of ParamSets.
TrainStep ==
    /\ tm.pc = "rollouts"
    /\ scenarios_listed
    /\ \E p \in ParamSets : tf_vars' = p
    /\ global_step' = global_step + 1
    /\ tm' = [tm EXCEPT !.seed_start = tm.seed_start + opts.batch_size,
                        !.iter_idx = tm.iter_idx + 1,
                        !.scenarios = <<>>,
                        !.pc = IF tm.iter_idx + 1 = tm.num_iters THEN "done" ELSE "rollouts"]
    /\ UNCHANGED <<opts, scenario>>
    /\ UNCHANGED outside_teacher

Init ==
    /\ opts \in [params : ParamSets, batch_size : BatchSizes, end_time : EndTimes]
    /\ tf_vars = opts.params
    /\ global_step = 0
    /\ tm = TmIdleFrame
    /\ scenario = NoScenario
    /\ TrainerUnused
    /\ BroadcasterUnused
    /\ CombinerUnused
    /\ RestoreUnused
    /\ OthersUnused
    /\ LauncherUnused

Next ==
    \/ MkScenario
    \/ Run
    \/ RunIter
    \/ RunExit
    \/ TrainManyBegin
    \/ TrainMkScenario
    \/ TrainRun
    \/ TrainCollect
    \/ TrainStep

Spec == Init /\ [][Next]_vars

(***************************************************************************)
(* Claims about the rollout and the training loop, under Spec.             *)
(***************************************************************************)
\* The absolute times of the recorded events: the running sums of time_deltas.
RECURSIVE EventTimes(_)
EventTimes(deltas) ==
    IF deltas = <<>> THEN <<>>
    ELSE LET front == EventTimes(SubSeq(deltas, 1, Len(deltas) - 1))
         IN Append(front, SumSeq(deltas))

Recorded(s) == <<s.items, s.c_is, s.hidden_states, s.time_deltas, s.recalls>>

\* C1: after run() has completed, the recorded time_deltas plus
\* get_last_interval() add up to the horizon T (T itself when nothing was
\* recorded), and the last element of get_all_time_deltas() is that interval.
C1_HorizonAccounting ==
    scenario.pc = "done" =>
        /\ SumSeq(scenario.time_deltas) + get_last_interval(scenario) = scenario.T
        /\ get_all_time_deltas(scenario)[Len(scenario.time_deltas) + 1]
               = get_last_interval(scenario)

C9_StopsWhenExceeding ==
    [][scenario.pc = "loop" =>
          LET below == scenario.max_events = inf
                          \/ Len(scenario.c_is) < scenario.max_events
              within == scenario.t_next <= scenario.T
          IN IF below /\ within
             THEN /\ scenario'.pc = "loop"
                  /\ Len(scenario'.c_is) = Len(scenario.c_is) + 1
             ELSE /\ scenario'.pc = "done"
                  /\ Recorded(scenario') = Recorded(scenario)]_vars

\* C9 as amended: a pass of the loop records the candidate exactly when its
\* time is strictly below T and the count is below the cap; otherwise run()
\* returns; nothing is recorded afterwards; every recorded time is strictly
\* below T and the count never exceeds the cap.
C9_StopsAtHorizon ==
    /\ [][scenario.pc = "loop" =>
             LET below == scenario.max_events = inf
                             \/ Len(scenario.c_is) < scenario.max_events
                 within == scenario.t_next < scenario.T
             IN IF below /\ within
                THEN /\ scenario'.pc = "loop"
                     /\ Len(scenario'.c_is) = Len(scenario.c_is) + 1
                     /\ scenario'.t = scenario.t_next
                ELSE /\ scenario'.pc = "done"
                     /\ Recorded(scenario') = Recorded(scenario)]_vars
    /\ [][(scenario.pc = "done" /\ scenario'.pc = "done") => scenario' = scenario]_vars
    /\ [](scenario.pc \in {"loop", "done"} =>
             /\ \A k \in 1 .. Len(scenario.time_deltas) :
                    EventTimes(scenario.time_deltas)[k] < scenario.T
             /\ scenario.max_events # inf => Len(scenario.c_is) <= scenario.max_events)

\* C9 witness: an event has been recorded and the next candidate falls on the
\* horizon itself, with the count below the cap.
C9_Witness ==
    /\ scenario.pc = "loop"
    /\ Len(scenario.c_is) >= 1
    /\ scenario.t_next = scenario.T
    /\ (scenario.max_events = inf \/ Len(scenario.c_is) < scenario.max_events)

\* C10: after run() has completed with n recorded events, the hidden states,
\* the c values and the time deltas the accessors return have n + 1 entries
\* each, and get_num_events() = n = len(items) = len(recalls) = len(time_deltas).
C10_Lengths ==
    scenario.pc = "done" =>
        LET n == scenario.idx
        IN /\ Len(get_all_hidden_states(scenario)) = n + 1
           /\ Len(get_all_c_is(scenario)) = n + 1
           /\ Len(get_all_time_deltas(scenario)) = n + 1
           /\ get_num_events(scenario) = n
           /\ Len(scenario.items) = n
           /\ Len(scenario.recalls) = n
           /\ Len(scenario.time_deltas) = n

\* C10 witness: a run that recorded two events has completed.
C10_Witness == scenario.pc = "done" /\ scenario.idx = 2

(***************************************************************************)
(* ExpRecurrentTrainer (exp_broadcaster.py): get_feed_dict and the graph   *)
(* its constructor unrolls over max_events steps.                          *)
(***************************************************************************)
MaxRows == 2       \* the most rows (events) of a simulation dataframe

Sources == {0, 1}          \* the src_ids of the simulation's sources
Deltas == {0, 1}           \* the time_delta of a row
TrainerBatchSizes == {1, 2}
\* sim_opts.end_time: no event of a dataframe lies beyond it.
sim_end_time == MaxRows * 1
\* The unrolled graph's max_events: below, at and beyond the dataframes' lengths.
MaxEventsChoices == 1 .. (MaxRows + 2)

\* self.q = 10.0
q == 10
\* exp is modelled as Exp(x) = 2^(x + ExpShift).
ExpShift == 10

Exp(x) == 2 ^ (x + ExpShift)

RECURSIVE Log(_)
Log(y) == IF y <= 1 THEN -ExpShift ELSE 1 + Log(y \div 2)

\* a / w for a negative or positive w that divides a.
Div(a, w) == IF w < 0 THEN -(a \div (-w)) ELSE a \div w

TrainerParamSets ==
    { [Wm |-> [e \in 0 .. (Cardinality(Sources) - 1) |-> IF e = 0 THEN 1 ELSE -1],
       Wh |-> 1, Wt |-> -1, Wr |-> 1, Bh |-> b, vt |-> 1, wt |-> w, bt |-> 0]
      : w \in {-2, -1}, b \in {0} }

\* A row of a dataframe: who posted and how long after the previous event.
Rows == [src_id : Sources, time_delta : Deltas]
RowSeqs == UNION { [1 .. n -> Rows] : n \in 0 .. MaxRows }

\* A dataframe: its rows in time order and the sink ids that occur in it.
DataFrames ==
    { [rows |-> r, sinks |-> IF r = <<>> THEN {} ELSE {0}] : r \in RowSeqs }
    \cup { [rows |-> r, sinks |-> {0, 1}] : r \in { x \in RowSeqs : Len(x) = 1 } }

Batches ==
    { <<d>> : d \in DataFrames }
    \cup { <<d[1], d[2]>> : d \in DataFrames \X DataFrames }

\* df.t of row k (1-based): the time of the event.
df_t(df, k) == SumSeq([j \in 1 .. k |-> df.rows[j].time_delta])

\* RU.rank_of_src_in_df(df, src_id).mean(axis=1) at row k: the posts of others
\* above the source's latest post in the sink's feed.
RECURSIVE rank_of_src_in_df(_, _, _)
rank_of_src_in_df(df, src_id, k) ==
    IF k = 0 THEN 0
    ELSE IF df.rows[k].src_id = src_id THEN 0
    ELSE 1 + rank_of_src_in_df(df, src_id, k - 1)

\* reward_fn: the sum of rank^2 * dt up to sim_opts.end_time.
reward_fn(df, src_id) ==
    LET n == Len(df.rows)
        next_t(k) == IF k = n THEN sim_end_time ELSE df_t(df, k + 1)
    IN SumSeq([k \in 1 .. n |->
                  rank_of_src_in_df(df, src_id, k) * rank_of_src_in_df(df, src_id, k)
                  * (next_t(k) - df_t(df, k))])

\* src_embed_map: the other sources, in order, get 1, 2, ...; the trained
\* source gets 0.
src_embed_map(src_id) ==
    [x \in Sources |->
        IF x = src_id THEN 0
        ELSE 1 + Cardinality({y \in Sources \ {src_id} : y < x})]

ExpRecurrentTrainer__init__(p, src_id, batch_size, max_events) ==
    [pc |-> "built", cls |-> "ExpRecurrentTrainer", p |-> p, src_id |-> src_id,
     src_embed_map |-> src_embed_map(src_id),
     batch_size |-> batch_size, max_events |-> max_events]

\* A variant that also accepts a dataframe without any sink.
one_sink_at_most(df) == Cardinality(df.sinks) <= 1

\* len(df.sink_id.unique()) == 1
one_sink(df) == Cardinality(df.sinks) = 1

\* ExpRecurrentTrainer.get_feed_dict
get_feed_dict(tr, batch) ==
    IF \E i \in 1 .. Len(batch) : ~one_sink(batch[i])
    THEN [pc |-> "done", ok |-> FALSE, error |-> "Can only handle one sink at the moment."]
    ELSE IF Len(batch) # tr.batch_size
    THEN [pc |-> "done", ok |-> FALSE, error |-> "The batch should consist of batch_size simulations."]
    ELSE
      LET B == tr.batch_size
          me == tr.max_events
          batch_len(i) == Min(Len(batch[i].rows), me)
      IN [pc |-> "done", ok |-> TRUE,
          rewards |-> [i \in 1 .. B |-> reward_fn(batch[i], tr.src_id)],
          seq_len |-> [i \in 1 .. B |-> batch_len(i)],
          ranks |-> [i \in 1 .. B |-> [k \in 1 .. me |->
                        IF k <= batch_len(i)
                        THEN rank_of_src_in_df(batch[i], tr.src_id, k) ELSE 0]],
          b_idxes |-> [i \in 1 .. B |-> [k \in 1 .. me |->
                        IF k <= batch_len(i)
                        THEN tr.src_embed_map[batch[i].rows[k].src_id] ELSE 0]],
          t_deltas |-> [i \in 1 .. B |-> [k \in 1 .. me |->
                        IF k <= batch_len(i) THEN batch[i].rows[k].time_delta ELSE 0]],
          last_interval |-> [i \in 1 .. B |->
                        IF batch_len(i) = Len(batch[i].rows)
                        THEN sim_end_time - df_t(batch[i], Len(batch[i].rows))
                        ELSE batch[i].rows[batch_len(i) + 1].time_delta]]

\* The mask of the unrolled loop: evt_idx <= self.tf_batch_seq_len.
step_mask(evt_idx, seq_len) == evt_idx <= seq_len

\* batch_u_theta(batch_t_deltas) for one trajectory with hidden state h.
batch_u_theta(p, h, t_delta) == Exp(p.vt * h + p.wt * t_delta + p.bt)

\* One pass of the loop over evt_idx, for trajectory i of the feed f; h_prev
\* is tf_batch_h_t before the pass.
graph_step(tr, f, i, evt_idx, h_prev) ==
    LET p == tr.p
        k == evt_idx + 1
        b_idx == f.b_idxes[i][k]
        t_delta == f.t_deltas[i][k]
        active == step_mask(evt_idx, f.seq_len[i])
        h == IF active
             THEN Tanh(p.Wm[b_idx] + p.Wh * h_prev + p.Wr * f.ranks[i][k]
                       + p.Wt * t_delta + p.Bh)
             ELSE 0
        u_theta == IF active THEN batch_u_theta(p, h, t_delta) ELSE 0
        own == b_idx = tr.src_id
    IN [h |-> h,
        own |-> own,
        LL_log_term |-> IF active THEN (IF own THEN Log(u_theta) ELSE 0) ELSE 0,
        LL_int_term |-> IF active
                        THEN -Div(batch_u_theta(p, h, 0) - u_theta, p.wt) ELSE 0,
        loss_term |-> IF active
                      THEN -Div(batch_u_theta(p, h, 0) * batch_u_theta(p, h, 0)
                                - u_theta * u_theta, 2 * p.wt)
                      ELSE 0]

\* The passes evt_idx = 0 .. n - 1 of the loop for trajectory i.
RECURSIVE graph_steps(_, _, _, _)
graph_steps(tr, f, i, n) ==
    IF n = 0 THEN <<>>
    ELSE LET before == graph_steps(tr, f, i, n - 1)
             h_prev == IF n = 1 THEN 0 ELSE before[n - 1].h
         IN Append(before, graph_step(tr, f, i, n - 1, h_prev))

\* What a session run of the graph yields for the feed f: the per-step terms,
\* the terms added after the loop, self.LL and self.loss.
graph_run(tr, f) ==
    LET p == tr.p
        B == tr.batch_size
        steps == [i \in 1 .. B |-> graph_steps(tr, f, i, tr.max_events)]
        h_t(i) == steps[i][tr.max_events].h
        u_0(i) == batch_u_theta(p, h_t(i), 0)
        u_last(i) == batch_u_theta(p, h_t(i), f.last_interval[i])
        LL_last == [i \in 1 .. B |-> Div(u_0(i) - u_last(i), p.wt)]
        loss_last == [i \in 1 .. B |->
                         -Div(u_0(i) * u_0(i) - u_last(i) * u_last(i), 2 * p.wt)]
        sum_log(i) == SumSeq([k \in 1 .. tr.max_events |-> steps[i][k].LL_log_term])
        sum_loss(i) == SumSeq([k \in 1 .. tr.max_events |-> steps[i][k].loss_term])
    IN [pc |-> "done",
        steps |-> steps,
        LL_last |-> LL_last,
        loss_last |-> loss_last,
        LL |-> [i \in 1 .. B |-> sum_log(i) + sum_log(i) + LL_last[i]],
        loss |-> [i \in 1 .. B |-> ((sum_loss(i) + loss_last[i]) * q) \div 2]]

TeacherUnused ==
    /\ tf_vars = <<>> /\ opts = <<>> /\ global_step = 0
    /\ tm = TmIdleFrame /\ scenario = NoScenario

\* A caller hands the batch to get_feed_dict.
TrainerGetFeedDict ==
    /\ trainer.pc = "built"
    /\ feed.pc = "none"
    /\ feed' = get_feed_dict(trainer, batch_df)
    /\ UNCHANGED <<trainer, batch_df, out>>
    /\ UNCHANGED outside_trainer

\* sess.run of the terms, self.LL and self.loss with the feed dict.
TrainerSessRun ==
    /\ feed.pc = "done" /\ feed.ok
    /\ out.pc = "none"
    /\ out' = graph_run(trainer, feed)
    /\ UNCHANGED <<trainer, batch_df, feed>>
    /\ UNCHANGED outside_trainer

InitTrainer ==
    /\ TeacherUnused
    /\ trainer \in { ExpRecurrentTrainer__init__(p, src_id, b, me) :
                       p \in TrainerParamSets, src_id \in Sources,
                       b \in TrainerBatchSizes, me \in MaxEventsChoices }
    /\ batch_df \in Batches
    /\ feed = NoFeed
    /\ out = NoOut
    /\ BroadcasterUnused
    /\ CombinerUnused
    /\ RestoreUnused
    /\ OthersUnused
    /\ LauncherUnused

NextTrainer ==
    \/ TrainerGetFeedDict
    \/ TrainerSessRun

SpecTrainer == InitTrainer /\ [][NextTrainer]_vars

(***************************************************************************)
(* Claims about ExpRecurrentTrainer.                                       *)
(***************************************************************************)
TrainerRan == feed.pc = "done" /\ feed.ok /\ out.pc = "done"

\* C2: for every trajectory i and every step index k >= seq_len[i], the
\* step's LL_log_term, LL_int_term and loss_term are all exactly zero.
C2_PaddedStepsContributeZero ==
    TrainerRan =>
        \A i \in 1 .. trainer.batch_size :
            \A evt_idx \in 0 .. (trainer.max_events - 1) :
                evt_idx >= feed.seq_len[i] =>
                    /\ out.steps[i][evt_idx + 1].LL_log_term = 0
                    /\ out.steps[i][evt_idx + 1].LL_int_term = 0
                    /\ out.steps[i][evt_idx + 1].loss_term = 0

\* The same trainer unrolled over exactly n steps, for one trajectory.
UnrolledOver(n) ==
    ExpRecurrentTrainer__init__(trainer.p, trainer.src_id, 1, n)

\* C3: a trajectory's total LL and total loss are the same whether the graph
\* is unrolled over exactly the trajectory's number of events or over more
\* (zero-padded) steps.
C3_PaddingInvariant ==
    TrainerRan =>
        \A i \in 1 .. trainer.batch_size :
            LET n == Len(batch_df[i].rows)
                exact == graph_run(UnrolledOver(n),
                                   get_feed_dict(UnrolledOver(n), <<batch_df[i]>>))
            IN n <= trainer.max_events =>
                   /\ out.LL[i] = exact.LL[1]
                   /\ out.loss[i] = exact.loss[1]

\* C4: LL of a trajectory = the sum of its log terms - the sum of its
\* integral terms + the terminal survival term, each term counted once.
C4_LLDecomposition ==
    TrainerRan =>
        \A i \in 1 .. trainer.batch_size :
            out.LL[i] =
                SumSeq([k \in 1 .. trainer.max_events |-> out.steps[i][k].LL_log_term])
                - SumSeq([k \in 1 .. trainer.max_events |-> out.steps[i][k].LL_int_term])
                + out.LL_last[i]

\* C5: a real step (index < seq_len) is gated into the log terms if and only
\* if its event was emitted by the trained source.
C5_OwnEventGate ==
    TrainerRan =>
        \A i \in 1 .. trainer.batch_size :
            \A k \in 1 .. feed.seq_len[i] :
                out.steps[i][k].own <=> (batch_df[i].rows[k].src_id = trainer.src_id)

\* C6: a batch with a trajectory of more events than max_events gets no feed
\* dict from get_feed_dict.
C6_OverflowRejected ==
    (feed.pc = "done"
     /\ \E i \in 1 .. Len(batch_df) : Len(batch_df[i].rows) > trainer.max_events)
        => ~feed.ok

\* C18 as stated: get_feed_dict fails on its assertions exactly when the
\* batch holds a number of trajectories other than batch_size or some
\* trajectory has more than one distinct sink_id.
C18_AssertionsAsStated ==
    feed.pc = "done" =>
        (~feed.ok <=> \/ Len(batch_df) # trainer.batch_size
                      \/ \E i \in 1 .. Len(batch_df) : Cardinality(batch_df[i].sinks) > 1)

\* C18, amended: get_feed_dict fails on its assertions, returning no feed
\* dict, exactly when the batch holds a number of trajectories other than
\* batch_size or some trajectory does not have exactly one distinct sink_id
\* (more than one, or none as in a dataframe without events).
C18_AssertionsExactlyOneSink ==
    feed.pc = "done" =>
        /\ ~feed.ok <=> \/ Len(batch_df) # trainer.batch_size
                        \/ \E i \in 1 .. Len(batch_df) : Cardinality(batch_df[i].sinks) # 1
        /\ ~feed.ok => DOMAIN feed = {"pc", "ok", "error"}

\* C18 witness: a batch of the configured size whose trajectories have at
\* most one sink, one of them none, was rejected by the first assertion.
C18_Witness ==
    /\ feed.pc = "done"
    /\ ~feed.ok
    /\ feed.error = "Can only handle one sink at the moment."
    /\ Len(batch_df) = trainer.batch_size
    /\ \A i \in 1 .. Len(batch_df) : Cardinality(batch_df[i].sinks) <= 1
    /\ \E i \in 1 .. Len(batch_df) : batch_df[i].sinks = {}

(***************************************************************************)
(* ExpRecurrentBroadcaster and ExpPredBroadcaster (exp_broadcaster.py):    *)
(* get_next_interval, called by the simulation's manager with the event    *)
(* that just happened (None on the first call).                            *)
(***************************************************************************)
MaxCalls == 3      \* get_next_interval calls explored per broadcaster

Ranks == {0, 1}            \* np.mean of state.get_wall_rank
Times == 0 .. sim_end_time \* the times of the simulation

None == [kind |-> "None"]
Events == [kind : {"Event"}, src_id : Sources, time_delta : Deltas, cur_time : Times]

\* Python's attribute lookup on an object: an absent name is an AttributeError.
hasattr(obj, name) == name \in DOMAIN obj

\* ExpPredTrainer.__init__: the attributes get_next_interval's path reads.
ExpPredTrainer__init__(p, src_id) ==
    [pc |-> "built", cls |-> "ExpPredTrainer", p |-> p, src_id |-> src_id,
     src_embed_map |-> src_embed_map(src_id)]

\* trainer.tf_h_next, fed with b_idx, t_delta, h and rank.
tf_h_next(p, b_idx, t_delta, h, rank) ==
    Tanh(p.Wm[b_idx] + p.Wh * h + p.Wr * rank + p.Wt * t_delta + p.Bh)

\* ExpRecurrentBroadcaster.__init__ / ExpPredBroadcaster.__init__, t_min = 0.
Broadcaster__init__(cls, src_id, seed, tr) ==
    [pc |-> "ready", cls |-> cls, init |-> FALSE, src_id |-> src_id,
     cur_h |-> 0,
     exp_sampler |-> ExpCDFSampler__init__(tr.p @@ [init_h |-> 0], 0, seed + 1),
     calls |-> 0]

\* trainer._create_exp_broadcaster(seed)
_create_exp_broadcaster(tr, seed) ==
    IF tr.cls = "ExpRecurrentTrainer"
    THEN Broadcaster__init__("ExpRecurrentBroadcaster", tr.src_id, seed, tr)
    ELSE Broadcaster__init__("ExpPredBroadcaster", tr.src_id, seed, tr)

\* ExpPredTrainer._update_hidden_state(src_id, time_delta, r_t)
_update_hidden_state(tr, src_id, time_delta, r_t) ==
    IF ~hasattr(tr, "trainer") \/ ~hasattr(tr, "cur_h")
    THEN [ok |-> FALSE, error |-> "AttributeError"]
    ELSE [ok |-> TRUE,
          h |-> tf_h_next(tr.trainer.p, tr.trainer.src_embed_map[src_id],
                          time_delta, tr.cur_h, r_t)]

\* update_hidden_state(src_id, time_delta) of the two broadcasters; r_t is
\* the wall rank the simulation's state reports.
broadcaster_update_hidden_state(b, tr, src_id, time_delta, r_t) ==
    IF b.cls = "ExpRecurrentBroadcaster"
    THEN [ok |-> TRUE,
          h |-> tf_h_next(tr.p, tr.src_embed_map[src_id], time_delta, b.cur_h, r_t)]
    ELSE _update_hidden_state(tr, src_id, time_delta, r_t)

\* next_delta = next_post_time - self.last_self_event_time; assert next_delta >= 0
assert_next_delta(next_delta) ==
    IF next_delta >= 0
    THEN [kind |-> "value", v |-> next_delta]
    ELSE [kind |-> "AssertionError"]

\* get_next_interval(event): the outcomes (the broadcaster afterwards and what
\* the call returned or raised).  last_self_event_time is the base class's
\* field, r_t the state's wall rank.
get_next_interval(b, tr, event, last_self_event_time, r_t) ==
    LET b1 == [b EXCEPT !.init = TRUE, !.calls = b.calls + 1]
    IN IF event = None
       THEN { [b |-> b1, ret |-> [kind |-> "value", v |-> t]] :
                 t \in ExpCDFSampler_generate_sample(b1.exp_sampler, b.calls) }
       ELSE LET u == broadcaster_update_hidden_state(b1, tr, event.src_id,
                                                     event.time_delta, r_t)
            IN IF ~u.ok
               THEN { [b |-> b1, ret |-> [kind |-> u.error]] }
               ELSE LET smp == ExpCDFSampler_register_event(
                                   b1.exp_sampler, event.cur_time, u.h,
                                   event.src_id = b1.src_id)
                        b2 == [b1 EXCEPT !.cur_h = u.h, !.exp_sampler = smp]
                    IN { [b |-> b2,
                          ret |-> assert_next_delta(next_post_time - last_self_event_time)] :
                            next_post_time \in ExpCDFSampler_generate_sample(smp, b.calls) }

\* run_sim: the trainer creates its broadcaster.
CreateBroadcaster ==
    /\ trainer.pc = "built"
    /\ broadcaster.pc = "none"
    /\ \E seed \in Seeds : broadcaster' = _create_exp_broadcaster(trainer, seed)
    /\ UNCHANGED ret
    /\ UNCHANGED outside_broadcaster

\* The manager calls get_next_interval: with None first, then with the events
\* of the simulation in time order.
GetNextInterval ==
    /\ broadcaster.pc = "ready"
    /\ broadcaster.calls < MaxCalls
    /\ \E event \in (IF broadcaster.init
                     THEN { e \in Events : e.cur_time >= broadcaster.exp_sampler.t_min }
                     ELSE {None}),
          last_self_event_time \in Times, r_t \in Ranks :
         \E o \in get_next_interval(broadcaster, trainer, event,
                                    last_self_event_time, r_t) :
            /\ broadcaster' = [o.b EXCEPT !.pc = IF o.ret.kind = "value"
                                                 THEN "ready" ELSE "failed"]
            /\ ret' = o.ret
    /\ UNCHANGED outside_broadcaster

InitBroadcaster ==
    /\ TeacherUnused
    /\ trainer \in { ExpRecurrentTrainer__init__(p, src_id, b, me) :
                       p \in TrainerParamSets, src_id \in Sources,
                       b \in TrainerBatchSizes, me \in MaxEventsChoices }
                   \cup { ExpPredTrainer__init__(p, src_id) :
                            p \in TrainerParamSets, src_id \in Sources }
    /\ batch_df = <<>> /\ feed = NoFeed /\ out = NoOut
    /\ BroadcasterUnused
    /\ CombinerUnused
    /\ RestoreUnused
    /\ OthersUnused
    /\ LauncherUnused

NextBroadcaster ==
    \/ CreateBroadcaster
    \/ GetNextInterval

SpecBroadcaster == InitBroadcaster /\ [][NextBroadcaster]_vars

\* C8: every get_next_interval call either returns an interval >= 0 or fails
\* with an assertion error.
C8_NonNegativeOrAssertion ==
    \/ ret.kind = "none"
    \/ ret.kind = "AssertionError"
    \/ ret.kind = "value" /\ ret.v >= 0

(***************************************************************************)
(* ExpRecurrentTeacher's batch graph (exp_teacher.py): loss_stack, the     *)
(* gradient combiner and the optimizer's apply_gradients, for one session  *)
(* run.  The per-trajectory terms and their derivatives come from the      *)
(* recurrent cell (cells.py); here they are values the run is given.       *)
(***************************************************************************)
\* The options of the teacher that the graph reads.
TeacherQs == {2, 4}              \* q
DecayQRates == {0, 1}            \* decay_q_rate
Rewards == {0, 2}                \* -s.reward(teacher.tau), one per trajectory
TermSums == {0, 2}               \* the sum of a trajectory's loss terms
LastTerms == {2}                 \* a trajectory's terminal loss term
TermGrads == {-2, 2}             \* the scale of a trajectory's derivatives
ClipNorms == {1, 10}             \* clip_norm

\* tf.pow(global_step, decay_q_rate); tf.pow(0, 0) is 1.
RECURSIVE Pow(_, _)
Pow(x, d) == IF d = 0 THEN 1 ELSE x * Pow(x, d - 1)

\* tf.reduce_mean over the batch.
reduce_mean(seq) == SumSeq(seq) \div Len(seq)

\* The position of an element in a sequence without repetitions.
IndexOf(seq, x) == CHOOSE k \in 1 .. Len(seq) : seq[k] = x

\* The stacked copies: the names the tuple is unpacked into and, in the same
\* positions, the variables whose tf.identity copies are stacked.
mini_targets ==
    <<"Wm_mini", "Wr_mini", "Wh_mini", "Wt_mini", "Bh_mini",
      "wt_mini", "vt_mini", "bt_mini", "Vy_mini">>
mini_sources ==
    <<"tf_Wm", "tf_Wr", "tf_Wh", "tf_Wt", "tf_Bh",
      "tf_wt", "tf_vt", "tf_bt", "tf_Vy">>

\* The variable a stacked tensor holds the copies of.
stacked_of(x) == mini_sources[IndexOf(mini_targets, x)]

all_tf_vars ==
    <<"tf_Wh", "tf_Wm", "tf_Wt", "tf_Bh", "tf_Wr", "tf_bt", "tf_vt", "tf_wt", "tf_Vy">>

\* A variant in which two entries have changed places.
all_mini_vars_swapped ==
    <<"Wm_mini", "Wh_mini", "Wt_mini", "Bh_mini", "Wr_mini",
      "bt_mini", "vt_mini", "wt_mini", "Vy_mini">>

all_mini_vars ==
    <<"Wh_mini", "Wm_mini", "Wt_mini", "Bh_mini", "Wr_mini",
      "bt_mini", "vt_mini", "wt_mini", "Vy_mini">>

\* The number of dimensions of a variable: wt and bt are vectors, the others
\* matrices.
var_rank(v) == IF v \in {"tf_wt", "tf_bt"} THEN 1 ELSE 2

\* The cell's derivatives of trajectory i's LL and of its loss terms (per-step
\* sum plus terminal term) with respect to the copy of variable v: a scale per
\* trajectory times a weight per variable.  The loss does not depend on Vy.
cell_dLL(f, i, v) == f.dLL[i] * IndexOf(mini_sources, v)
cell_dloss_terms(f, i, v) ==
    IF v = "tf_Vy" THEN 0 ELSE f.dterms[i] * IndexOf(mini_sources, v)

\* self.loss_stack
loss_stack(o, g, f) ==
    [i \in 1 .. Len(f.rewards) |->
        (o.q \div 2) * (f.loss_terms_sum[i] + f.loss_last_term[i])
        * Pow(g, o.decay_q_rate)]

\* tf.gradients(self.LL_stack, x)[0] and tf.gradients(self.loss_stack, x)[0]:
\* row i is the derivative of trajectory i.
LL_grad_stacked(f, x) ==
    [i \in 1 .. Len(f.rewards) |-> cell_dLL(f, i, stacked_of(x))]
loss_grad_stacked(o, g, f, x) ==
    [i \in 1 .. Len(f.rewards) |->
        (o.q \div 2) * cell_dloss_terms(f, i, stacked_of(x)) * Pow(g, o.decay_q_rate)]

\* A variant whose baseline leaves out the mean of the loss.
avg_reward_rewards_only(o, g, f) ==
    IF o.with_advantage THEN reduce_mean(f.rewards) ELSE 0

\* avg_reward, the baseline.
avg_reward(o, g, f) ==
    IF o.with_advantage
    THEN reduce_mean(f.rewards) + reduce_mean(loss_stack(o, g, f))
    ELSE 0

\* coef
coef(o, g, f) ==
    [i \in 1 .. Len(f.rewards) |->
        f.rewards[i] + loss_stack(o, g, f)[i] - avg_reward(o, g, f)]

\* The loop over zip(all_mini_vars, all_tf_vars): the pairs appended to
\* avg_gradient_stack by its first n passes.
RECURSIVE avg_gradient_stack(_, _, _, _)
avg_gradient_stack(o, g, f, n) ==
    IF n = 0 THEN <<>>
    ELSE LET x == all_mini_vars[n]
             y == all_tf_vars[n]
             LL_grad == LL_grad_stacked(f, x)
             loss_grad == IF x = "Vy_mini"
                          THEN [i \in 1 .. Len(f.rewards) |-> 0]
                          ELSE loss_grad_stacked(o, g, f, x)
             dim == 1 + var_rank(stacked_of(x))
             c == coef(o, g, f)
             pair == [grad |-> reduce_mean([i \in 1 .. Len(f.rewards) |->
                                               LL_grad[i] * c[i] + loss_grad[i]]),
                      var |-> y]
             before == avg_gradient_stack(o, g, f, n - 1)
         IN IF dim \in {1, 2, 3} THEN Append(before, pair) ELSE before

\* The square of the global L2 norm of a list of gradients.
global_norm_sq(t_list) == SumSeq([k \in 1 .. Len(t_list) |-> t_list[k] * t_list[k]])

\* A variant that clips every gradient by its own norm, as tf.clip_by_norm does.
clip_by_norm_each(t_list, clip_norm) ==
    [list |-> [k \in 1 .. Len(t_list) |->
                 [clipped |-> t_list[k], scale_num |-> clip_norm,
                  scale_den_sq |-> Max(t_list[k] * t_list[k], clip_norm * clip_norm)]],
     global_norm_sq |-> global_norm_sq(t_list)]

\* tf.clip_by_global_norm(t_list, clip_norm): every t is replaced by
\* t * clip_norm / max(global_norm, clip_norm), and global_norm is returned
\* with the list.  The clipped value is kept as the gradient and its scale
\* scale_num / sqrt(scale_den_sq); the norm is kept as its square.
clip_by_global_norm(t_list, clip_norm) ==
    [list |-> [k \in 1 .. Len(t_list) |->
                 [clipped |-> t_list[k], scale_num |-> clip_norm,
                  scale_den_sq |-> Max(global_norm_sq(t_list), clip_norm * clip_norm)]],
     global_norm_sq |-> global_norm_sq(t_list)]

\* clipped_avg_gradient_stack: the clipped gradients, zipped with the
\* variables of avg_gradient_stack in the same order.
clipped_avg_gradient_stack(stack, clip_norm) ==
    LET clipped_avg_gradients_stack ==
            clip_by_global_norm([k \in 1 .. Len(stack) |-> stack[k].grad], clip_norm).list
    IN [k \in 1 .. Len(stack) |-> [grad |-> clipped_avg_gradients_stack[k],
                                   var |-> stack[k].var]]

\* grad_norm_stack, as its square.
grad_norm_stack_sq(stack, clip_norm) ==
    clip_by_global_norm([k \in 1 .. Len(stack) |-> stack[k].grad], clip_norm).global_norm_sq

\* The session run of train_many: loss_stack, the baseline, the coefficients
\* and the gradient bundle.
CombinerSessRun ==
    /\ f_d.pc = "fed"
    /\ sgd.pc = "none"
    /\ LET stack == avg_gradient_stack(opts, global_step, f_d, Len(all_mini_vars))
       IN sgd' = [pc |-> "ran",
                  loss_stack |-> loss_stack(opts, global_step, f_d),
                  avg_reward |-> avg_reward(opts, global_step, f_d),
                  coef |-> coef(opts, global_step, f_d),
                  avg_gradient_stack |-> stack,
                  clipped_avg_gradient_stack |->
                      clipped_avg_gradient_stack(stack, opts.clip_norm),
                  grad_norm_stack_sq |-> grad_norm_stack_sq(stack, opts.clip_norm),
                  step |-> global_step]
    /\ UNCHANGED <<teacher_vars, f_d>>
    /\ UNCHANGED outside_combiner

\* sgd_stacked_op: apply_gradients hands each variable the gradient it is
\* paired with and increments global_step.
CombinerApplyGradients ==
    /\ sgd.pc = "ran"
    /\ sgd' = [sgd EXCEPT !.pc = "applied"]
    /\ global_step' = global_step + 1
    /\ UNCHANGED <<tf_vars, opts, tm, scenario, f_d>>
    /\ UNCHANGED outside_combiner

FeedDicts(B) ==
    [pc : {"fed"}, rewards : [1 .. B -> Rewards],
     loss_terms_sum : [1 .. B -> TermSums], loss_last_term : [1 .. B -> LastTerms],
     dLL : [1 .. B -> TermGrads], dterms : [1 .. B -> TermGrads]]

InitCombiner ==
    /\ opts \in [batch_size : BatchSizes, q : TeacherQs, clip_norm : ClipNorms,
                 decay_q_rate : DecayQRates, with_advantage : BOOLEAN]
    /\ global_step \in 0 .. MaxIters
    /\ tf_vars = <<>> /\ tm = TmIdleFrame /\ scenario = NoScenario
    /\ f_d \in FeedDicts(opts.batch_size)
    /\ sgd = NoSgd
    /\ TrainerUnused
    /\ BroadcasterUnused
    /\ RestoreUnused
    /\ OthersUnused
    /\ LauncherUnused

NextCombiner ==
    \/ CombinerSessRun
    \/ CombinerApplyGradients

SpecCombiner == InitCombiner /\ [][NextCombiner]_vars

C12_BaselineAndCoef ==
    sgd.pc \in {"ran", "applied"} =>
        LET B == opts.batch_size
            R == f_d.rewards
            L == sgd.loss_stack
            b == IF opts.with_advantage
                 THEN (SumSeq(R) \div B) + (SumSeq(L) \div B)
                 ELSE 0
        IN /\ sgd.avg_reward = b
           /\ \A i \in 1 .. B : sgd.coef[i] = R[i] + L[i] - b

\* C12 witness: a batch of two trajectories with different rewards and
\* different losses, with the advantage formulation: the baseline is not 0
\* and the coefficients differ from R_i + L_i.
C12_Witness ==
    /\ sgd.pc = "ran"
    /\ opts.with_advantage
    /\ opts.batch_size = 2
    /\ f_d.rewards[1] # f_d.rewards[2]
    /\ sgd.loss_stack[1] # sgd.loss_stack[2]
    /\ sgd.avg_reward # 0

\* The nine trainable variables the constructor creates.
TrainableVars ==
    {"tf_Wh", "tf_Wm", "tf_Wt", "tf_Bh", "tf_Wr", "tf_bt", "tf_vt", "tf_wt", "tf_Vy"}

\* C13: each of the nine variables has exactly one pair in avg_gradient_stack
\* and in clipped_avg_gradient_stack; its gradient is the batch mean of
\* coef_i * dLL_i/dx + dL_i/dx for the copies of that same variable, and the
\* clipped bundle keeps the pairing.
C13_OneGradientPerVariable ==
    sgd.pc \in {"ran", "applied"} =>
        LET B == opts.batch_size
            stack == sgd.avg_gradient_stack
            clipped == sgd.clipped_avg_gradient_stack
            dL(i, v) == (opts.q \div 2) * cell_dloss_terms(f_d, i, v)
                        * Pow(sgd.step, opts.decay_q_rate)
            expected(v) ==
                SumSeq([i \in 1 .. B |->
                           sgd.coef[i] * cell_dLL(f_d, i, v) + dL(i, v)]) \div B
        IN /\ Len(stack) = Cardinality(TrainableVars)
           /\ Len(clipped) = Len(stack)
           /\ \A v \in TrainableVars :
                 /\ Cardinality({k \in 1 .. Len(stack) : stack[k].var = v}) = 1
                 /\ \A k \in 1 .. Len(stack) :
                       stack[k].var = v =>
                           /\ stack[k].grad = expected(v)
                           /\ clipped[k].var = v
                           /\ clipped[k].grad.clipped = expected(v)

\* C13 witness: the gradients of a batch of two trajectories with different
\* coefficients have been applied.
C13_Witness ==
    /\ sgd.pc = "applied"
    /\ opts.batch_size = 2
    /\ sgd.coef[1] # sgd.coef[2]
    /\ \E k \in 1 .. Len(sgd.avg_gradient_stack) : sgd.avg_gradient_stack[k].grad # 0

\* C21: when the global L2 norm g of the combined gradients exceeds
\* clip_norm, every gradient of the clipped bundle is scaled by the same
\* factor clip_norm / g, the clipped bundle's global norm is clip_norm, and
\* grad_norm_stack is the norm g before clipping.
C21_ClipScalesToClipNorm ==
    (/\ sgd.pc \in {"ran", "applied"}
     /\ global_norm_sq([k \in 1 .. Len(sgd.avg_gradient_stack) |->
                           sgd.avg_gradient_stack[k].grad])
            > opts.clip_norm * opts.clip_norm) =>
        LET stack == sgd.avg_gradient_stack
            clipped == sgd.clipped_avg_gradient_stack
            g_sq == SumSeq([k \in 1 .. Len(stack) |-> stack[k].grad * stack[k].grad])
        IN /\ sgd.grad_norm_stack_sq = g_sq
           /\ \A k \in 1 .. Len(clipped) :
                 /\ clipped[k].grad.clipped = stack[k].grad
                 /\ clipped[k].grad.scale_num = opts.clip_norm
                 /\ clipped[k].grad.scale_den_sq = g_sq
           \* || clipped ||^2 = clip_norm^2, both sides multiplied by g^2
           /\ SumSeq([k \in 1 .. Len(clipped) |->
                         (clipped[k].grad.clipped * clipped[k].grad.scale_num)
                         * (clipped[k].grad.clipped * clipped[k].grad.scale_num)])
                 = (opts.clip_norm * opts.clip_norm) * clipped[1].grad.scale_den_sq

\* C21 witness: a bundle with gradients of different sizes whose norm
\* exceeds a clip_norm of 10 has been clipped.
C21_Witness ==
    /\ sgd.pc = "ran"
    /\ opts.clip_norm = 10
    /\ sgd.grad_norm_stack_sq > 100
    /\ \E j, k \in 1 .. Len(sgd.avg_gradient_stack) :
          /\ sgd.avg_gradient_stack[j].grad # 0
          /\ sgd.avg_gradient_stack[k].grad # 0
          /\ sgd.avg_gradient_stack[j].grad # sgd.avg_gradient_stack[k].grad

(***************************************************************************)
(* exp_run.run (sbatch/exp_run.py): one launch command per row of in_csv.  *)
(***************************************************************************)
MaxCsvRows == 2    \* the most rows of in_csv

RowIdxs == {0, 1}              \* row.idx
RowQs == {-1, 1, 2}            \* row.q
CliQs == {-1, 3}               \* --q: the default (-1.0) or a value of the user's
RewardKinds == {"r_2_reward", "top_k_reward", "r_3_reward"}   \* --reward

CsvRows == [idx : RowIdxs, q : RowQs]
CsvFiles == UNION { [1 .. n -> CsvRows] : n \in 0 .. MaxCsvRows }

\* The command a pass of the loop builds for a row, with the current q.
top_k_cmd(row, cur_q) == [script |-> "./top_k_job.sh", idx |-> row.idx, q |-> cur_q]
r_2_cmd(row, cur_q) == [script |-> "./r_2_job.sh", idx |-> row.idx, q |-> cur_q]

\* A variant that prints the command and also executes it.
launch_both(dry, l, cmd) ==
    [l EXCEPT !.printed = Append(l.printed, cmd),
              !.executed = Append(l.executed, cmd)]

\* if dry: print(cmd) else: os.system(cmd)
launch(dry, l, cmd) ==
    IF dry
    THEN [l EXCEPT !.printed = Append(l.printed, cmd)]
    ELSE [l EXCEPT !.executed = Append(l.executed, cmd)]

\* One pass of the loop over df.iterrows(), for the row at position k.
run_row(a, l, k) ==
    LET row == a.csv[k]
        cur_q == IF l.q < 0 THEN row.q ELSE l.q
        l1 == [l EXCEPT !.q = cur_q, !.row_idx = k]
    IN IF a.reward_kind = "top_k_reward"
       THEN launch(a.dry, l1, top_k_cmd(row, cur_q))
       ELSE IF a.reward_kind = "r_2_reward"
       THEN launch(a.dry, l1, r_2_cmd(row, cur_q))
       ELSE [l1 EXCEPT !.pc = "ValueError"]

\* run() is entered: the CSV is read, q is the command line's.
LauncherBegin ==
    /\ argv.pc = "given"
    /\ launcher.pc = "none"
    /\ launcher' = [pc |-> "loop", row_idx |-> 0, q |-> argv.q,
                    printed |-> <<>>, executed |-> <<>>]
    /\ UNCHANGED argv
    /\ UNCHANGED <<teacher_vars, trainer_vars, broadcaster_vars, combiner_vars, restore_vars,
                   other_vars>>

\* The next pass of the loop.
LauncherRow ==
    /\ launcher.pc = "loop"
    /\ launcher.row_idx < Len(argv.csv)
    /\ launcher' = run_row(argv, launcher, launcher.row_idx + 1)
    /\ UNCHANGED argv
    /\ UNCHANGED <<teacher_vars, trainer_vars, broadcaster_vars, combiner_vars, restore_vars,
                   other_vars>>

\* The rows are exhausted: run() returns.
LauncherReturn ==
    /\ launcher.pc = "loop"
    /\ launcher.row_idx = Len(argv.csv)
    /\ launcher' = [launcher EXCEPT !.pc = "done"]
    /\ UNCHANGED argv
    /\ UNCHANGED <<teacher_vars, trainer_vars, broadcaster_vars, combiner_vars, restore_vars,
                   other_vars>>

InitLauncher ==
    /\ TeacherUnused
    /\ TrainerUnused
    /\ BroadcasterUnused
    /\ CombinerUnused
    /\ RestoreUnused
    /\ OthersUnused
    /\ argv \in [pc : {"given"}, csv : CsvFiles, dry : BOOLEAN,
                 reward_kind : RewardKinds, q : CliQs]
    /\ launcher = NoLauncher

NextLauncher ==
    \/ LauncherBegin
    \/ LauncherRow
    \/ LauncherReturn

SpecLauncher == InitLauncher /\ [][NextLauncher]_vars

\* The commands run() has issued, printed or executed.
Issued == IF argv.dry THEN launcher.printed ELSE launcher.executed

\* C14: with a negative --q the command of every row carries that row's own
\* q; with a non-negative --q every command carries the command line's value.
C14_EachRowCarriesItsQ ==
    launcher.pc \in {"loop", "done"} =>
        \A k \in 1 .. Len(Issued) :
            Issued[k].q = IF argv.q < 0 THEN argv.csv[k].q ELSE argv.q

\* C19: one command per row, in row order; in dry mode each is printed and
\* none executed, otherwise each is executed and none printed; an unknown
\* reward kind raises ValueError before any command of the row is issued.
C19_OneCommandPerRow ==
    launcher.pc # "none" =>
        LET known == argv.reward_kind \in {"r_2_reward", "top_k_reward"}
        IN /\ argv.dry => launcher.executed = <<>>
           /\ ~argv.dry => launcher.printed = <<>>
           /\ known =>
                 /\ launcher.pc # "ValueError"
                 /\ Len(Issued) = launcher.row_idx
                 /\ \A k \in 1 .. Len(Issued) :
                       /\ Issued[k].idx = argv.csv[k].idx
                       /\ Issued[k].script = IF argv.reward_kind = "top_k_reward"
                                             THEN "./top_k_job.sh" ELSE "./r_2_job.sh"
                 /\ launcher.pc = "done" => Len(Issued) = Len(argv.csv)
           /\ ~known =>
                 /\ Issued = <<>>
                 /\ launcher.pc = "done" => argv.csv = <<>>
                 /\ launcher.pc = "ValueError" => launcher.row_idx = 1

\* C19 witness: run() has returned after executing the commands of two rows.
C19_Witness ==
    /\ launcher.pc = "done"
    /\ ~argv.dry
    /\ Len(launcher.executed) = 2
    /\ launcher.executed[1].idx # launcher.executed[2].idx

(***************************************************************************)
(* ExpRecurrentTeacher.restore (exp_teacher.py), together with the         *)
(* rollouts and the training loop.                                         *)
(***************************************************************************)
\* The values a checkpoint holds for the trainable variables.
CkptParamSets == { p \in ParamSets : p.wt \in {-1, 0} }
\* The suffix of a checkpoint file: the global_step it was saved at.
Epochs == {1, 2}

\* What a directory holds: its checkpoints, oldest first, each with the
\* global_step of its file name and the values of the variables.
CheckpointDirs ==
    { <<>> }
    \cup { <<[epoch |-> e, tf_vars |-> p]>> : e \in Epochs, p \in CkptParamSets }
    \cup { <<[epoch |-> e[1], tf_vars |-> p[1]], [epoch |-> e[2], tf_vars |-> p[2]]>> :
             e \in { x \in Epochs \X Epochs : x[1] < x[2] },
             p \in CkptParamSets \X CkptParamSets }

\* tf.train.get_checkpoint_state(restore_dir): None for a directory without
\* checkpoints.
get_checkpoint_state(dir) ==
    IF dir = <<>> THEN [none |-> TRUE]
    ELSE [none |-> FALSE,
          all_model_checkpoint_paths |-> dir,
          model_checkpoint_path |-> dir[Len(dir)]]

\* [x for x in paths if x.endswith('-{}'.format(epoch))]
files_with_suffix(paths, epoch) ==
    SelectSeq(paths, LAMBDA x : x.epoch = epoch)

\* self.saver.restore(self.sess, file): the session's variables take the
\* checkpoint's values.
saver_restore(file) ==
    [kind |-> "ok", tf_vars |-> file.tf_vars, global_step |-> file.epoch]

\* A variant that falls back to the latest checkpoint when the epoch is not
\* found, and still reports the error.
restore_fallback(dir, by_epoch, epoch_to_recover, cur_vars, cur_step) ==
    LET chkpt == get_checkpoint_state(dir)
        unchanged(kind) == [kind |-> kind, tf_vars |-> cur_vars, global_step |-> cur_step]
    IN IF chkpt.none THEN unchanged("AttributeError")
       ELSE IF by_epoch
       THEN LET file == files_with_suffix(chkpt.all_model_checkpoint_paths, epoch_to_recover)
            IN IF Len(file) < 1
               THEN [kind |-> "FileNotFoundError",
                     tf_vars |-> chkpt.model_checkpoint_path.tf_vars,
                     global_step |-> chkpt.model_checkpoint_path.epoch]
               ELSE saver_restore(file[1])
       ELSE saver_restore(chkpt.model_checkpoint_path)

\* restore(restore_dir, epoch_to_recover): the outcome and the session's
\* variables afterwards.  by_epoch is FALSE for epoch_to_recover=None.
restore(dir, by_epoch, epoch_to_recover, cur_vars, cur_step) ==
    LET chkpt == get_checkpoint_state(dir)
        unchanged(kind) == [kind |-> kind, tf_vars |-> cur_vars, global_step |-> cur_step]
    IN IF chkpt.none THEN unchanged("AttributeError")
       ELSE IF by_epoch
       THEN LET file == files_with_suffix(chkpt.all_model_checkpoint_paths, epoch_to_recover)
            IN IF Len(file) < 1
               THEN unchanged("FileNotFoundError")
               ELSE saver_restore(file[1])
       ELSE saver_restore(chkpt.model_checkpoint_path)

\* A caller restores the teacher, once in the session's life, before or
\* between its train_many calls.
Restore ==
    /\ TmIdle
    /\ scenario.pc # "loop"
    /\ restored.pc = "none"
    /\ \E dir \in CheckpointDirs, by_epoch \in BOOLEAN, e \in Epochs :
         LET r == restore(dir, by_epoch, e, tf_vars, global_step)
         IN /\ restored' = [pc |-> "called", restore_dir |-> dir, by_epoch |-> by_epoch,
                            epoch_to_recover |-> IF by_epoch THEN e ELSE 0,
                            kind |-> r.kind]
            /\ tf_vars' = r.tf_vars
            /\ global_step' = r.global_step
    /\ UNCHANGED <<opts, tm, scenario>>
    /\ UNCHANGED <<trainer_vars, broadcaster_vars, combiner_vars, launcher_vars, other_vars>>

\* The teacher is built with the shortest horizon.
InitRestore ==
    /\ opts \in { o \in [params : ParamSets, batch_size : BatchSizes, end_time : EndTimes] :
                    \A t \in EndTimes : o.end_time <= t }
    /\ tf_vars = opts.params
    /\ global_step = 0
    /\ tm = TmIdleFrame
    /\ scenario = NoScenario
    /\ TrainerUnused
    /\ BroadcasterUnused
    /\ CombinerUnused
    /\ RestoreUnused
    /\ OthersUnused
    /\ LauncherUnused

\* train_many and restore, called one after the other on the same teacher.
NextRestore ==
    \/ TrainManyBegin
    \/ TrainMkScenario
    \/ TrainRun
    \/ RunIter
    \/ RunExit
    \/ TrainCollect
    \/ TrainStep
    \/ Restore

SpecRestore == InitRestore /\ [][NextRestore]_vars

(***************************************************************************)
(* Claims about restore and about who changes the parameters, under        *)
(* SpecRestore.                                                            *)
(***************************************************************************)
\* A call of restore has just returned.
RestoreReturned == restored' # restored /\ restored'.pc = "called"

\* C15: restore(epoch_to_recover=e) raises FileNotFoundError and restores
\* nothing whenever the directory holds no checkpoint for e, the empty
\* directory included; otherwise it restores that checkpoint and no other.
C15_MissingEpochIsFileNotFound ==
    [][(RestoreReturned /\ restored'.by_epoch) =>
          LET file == files_with_suffix(restored'.restore_dir, restored'.epoch_to_recover)
          IN IF Len(file) < 1
             THEN /\ restored'.kind = "FileNotFoundError"
                  /\ tf_vars' = tf_vars
                  /\ global_step' = global_step
             ELSE /\ restored'.kind = "ok"
                  /\ tf_vars' = file[1].tf_vars
                  /\ global_step' = restored'.epoch_to_recover]_vars

\* The session run of a train_many iteration: the only step that increments
\* global_step inside the rollout loop.
OptimizerStep ==
    /\ tm.pc = "rollouts"
    /\ Len(tm.scenarios) = opts.batch_size
    /\ global_step' = global_step + 1

RolloutSeed(j) == tm.init_seed + global_step * opts.batch_size + j

\* C16: in train_many, rollout j of the iteration that begins with
\* global_step = g is simulated with seed init_seed + g * batch_size + j, in
\* a run that follows a restore as in any other; these seeds differ for any
\* two rollouts (g, j) of a run.
C16_SeedOfRollout ==
    /\ tm.pc = "rollouts" =>
          /\ \A k \in 1 .. Len(tm.scenarios) : tm.scenarios[k].seed = RolloutSeed(k - 1)
          /\ scenario.pc \notin {"none", "failed"} =>
                 scenario.seed = RolloutSeed(Len(tm.scenarios))
          /\ tm.seed_start = RolloutSeed(0)
    /\ \A g1, g2 \in 0 .. MaxIters : \A j1, j2 \in 0 .. opts.batch_size - 1 :
          <<g1, j1>> # <<g2, j2>> =>
              seed_start(tm.init_seed, g1, opts.batch_size) + j1
                  # seed_start(tm.init_seed, g2, opts.batch_size) + j2

\* C16 witness: after a restore found its checkpoint, a train_many call with
\* init_seed 1 and batch_size 2 has collected both rollouts of its first
\* iteration, which begins at a global_step of at least 1.
C16_Witness ==
    /\ restored.pc = "called"
    /\ restored.kind = "ok"
    /\ tm.pc = "rollouts"
    /\ tm.iter_idx = 0
    /\ tm.init_seed = 1
    /\ opts.batch_size = 2
    /\ global_step >= 1
    /\ Len(tm.scenarios) = 2
    /\ tm.scenarios[2].seed = 1 + global_step * 2 + 1

(***************************************************************************)
(* The barrier of a train_many iteration, under Spec.                      *)
(***************************************************************************)
\* The rollout was simulated with the session's current parameter values.
SimulatedWith(s, p) ==
    /\ s.Wm = p.Wm /\ s.Wh = p.Wh /\ s.Wr = p.Wr /\ s.Wt = p.Wt
    /\ s.Bh = p.Bh /\ s.Vy = p.Vy
    /\ s.params.wt = p.wt /\ s.params.vt = p.vt /\ s.params.bt = p.bt

\* C17: global_step changes only by +1, in the session run of a train_many
\* iteration, once per iteration, when all batch_size rollouts have run to
\* completion and none is in progress; every rollout of the iteration,
\* collected or in progress, was simulated with the parameter values the
\* session holds since the previous step.
C17_BarrierOncePerIteration ==
    [][/\ global_step' # global_step =>
            /\ global_step' = global_step + 1
            /\ tm.pc = "rollouts"
            /\ tm'.iter_idx = tm.iter_idx + 1
            /\ Len(tm.scenarios) = opts.batch_size
            /\ \A k \in 1 .. Len(tm.scenarios) : tm.scenarios[k].pc = "done"
            /\ scenario.pc = "none"
       /\ (tm.pc = "rollouts" /\ tm'.iter_idx # tm.iter_idx) =>
            global_step' = global_step + 1
       /\ tm'.pc = "rollouts" =>
            /\ \A k \in 1 .. Len(tm'.scenarios) : SimulatedWith(tm'.scenarios[k], tf_vars')
            /\ scenario'.pc \notin {"none", "failed"} => SimulatedWith(scenario', tf_vars')]_vars

\* C17 witness: the second iteration of a train_many call with batch_size 2
\* has collected both rollouts, simulated with values that the first step
\* produced and that differ from the ones the teacher was built with.
C17_Witness ==
    /\ tm.pc = "rollouts"
    /\ tm.iter_idx = 1
    /\ global_step >= 1
    /\ opts.batch_size = 2
    /\ Len(tm.scenarios) = 2
    /\ tf_vars # opts.params
    /\ \A k \in 1 .. 2 : tm.scenarios[k].pc = "done" /\ SimulatedWith(tm.scenarios[k], tf_vars)

(***************************************************************************)
(* The snapshots Scenario.run records, under Spec.                         *)
(***************************************************************************)
\* The hidden state that the update of event k (1-based) produces from the
\* hidden state h in force before it.
HiddenAfter(s, k, h) ==
    Tanh(s.Wm[s.items[k]] + s.Wh * h + s.Wr * s.recalls[k]
         + s.Wt * s.time_deltas[k] + s.Bh)

\* C24: the c and the hidden state recorded for an event are the ones in
\* force during the gap that ends at it: the first entries are the initial
\* hidden state and the c derived from it, every later entry is the hidden
\* state produced by the previous event's update and the c that the previous
\* event's register_event set from it, and the extra final entry of
\* get_all_c_is / get_all_hidden_states is the value set at the last event.
C24_SnapshotsOfTheGap ==
    scenario.pc \in {"loop", "done"} =>
        LET s == scenario
            cs == get_all_c_is(s)
            hs == get_all_hidden_states(s)
            n == Len(s.items)
        IN /\ Len(cs) = n + 1
           /\ Len(hs) = n + 1
           /\ hs[1] = s.params.init_h
           /\ cs[1] = s.params.vt * s.params.init_h + s.params.bt
           /\ \A k \in 1 .. n :
                /\ hs[k + 1] = HiddenAfter(s, k, hs[k])
                /\ cs[k + 1] = s.params.vt * hs[k + 1] + s.params.bt

\* C24 witness: a run has ended with two events whose updates each changed
\* the hidden state.
C24_Witness ==
    /\ scenario.pc = "done"
    /\ Len(scenario.items) = 2
    /\ scenario.hidden_states[2] # scenario.hidden_states[1]
    /\ scenario.cur_h # scenario.hidden_states[2]
    /\ scenario.c_is[2] # scenario.c_is[1]

\* The recorded hidden states as a later read finds them: the arrays the
\* entries of self.hidden_states refer to.
RecordedHidden(s) == [k \in 1 .. Len(s.h_refs) |-> s.h_heap[s.h_refs[k]]]

IsPrefix(old, new) ==
    Len(old) <= Len(new) /\ \A k \in 1 .. Len(old) : new[k] = old[k]

\* C26: during a run the recorded trajectory is append-only: the items,
\* c values, hidden-state snapshots, time deltas and recalls recorded so far
\* keep their values in every later pass and at the return, and the hidden
\* states read back from the recorded snapshots are the ones recorded, the
\* update having produced a new array.
C26_AppendOnly ==
    [][(scenario.pc = "loop" /\ scenario'.pc \in {"loop", "done"}) =>
          /\ IsPrefix(scenario.items, scenario'.items)
          /\ IsPrefix(scenario.c_is, scenario'.c_is)
          /\ IsPrefix(scenario.hidden_states, scenario'.hidden_states)
          /\ IsPrefix(scenario.time_deltas, scenario'.time_deltas)
          /\ IsPrefix(scenario.recalls, scenario'.recalls)
          /\ IsPrefix(RecordedHidden(scenario), RecordedHidden(scenario'))
          /\ RecordedHidden(scenario') = scenario'.hidden_states
          /\ scenario'.h_heap[scenario'.cur_ref] = scenario'.cur_h]_vars

\* C26 witness: a run recorded two events and the current hidden state
\* differs from both recorded snapshots.
C26_Witness ==
    /\ scenario.pc = "loop"
    /\ Len(scenario.h_refs) = 2
    /\ scenario.cur_h # scenario.hidden_states[1]
    /\ scenario.cur_h # scenario.hidden_states[2]
    /\ scenario.cur_ref \notin {scenario.h_refs[1], scenario.h_refs[2]}

\* The seeds of the random sources of one rollout: the item-choice generator
\* (seed), the student's generator (seed * 2) and the sampler's (seed + 1).
SourceSeeds(s) == {s.seed, s.student.seed, s.exp_sampler.seed}

\* The rollouts of the current batch: the collected ones and the one being
\* simulated.
BatchRollouts ==
    { tm.scenarios[k] : k \in 1 .. Len(tm.scenarios) }
    \cup (IF scenario.pc \in {"created", "loop", "done"} THEN {scenario} ELSE {})

\* C28: within a batch, the seeds given to the random sources of different
\* rollouts are pairwise distinct: no two rollouts draw from identically
\* seeded generators.
C28_DistinctSeedsAcrossRollouts ==
    tm.pc = "rollouts" =>
        \A a, b \in BatchRollouts :
            a.seed # b.seed => SourceSeeds(a) \cap SourceSeeds(b) = {}

(***************************************************************************)
(* Scenario.run with a sampler whose draws are not known to respect its    *)
(* origin: exp_sampler.py is outside the sources, and run() takes whatever *)
(* generate_sample returns.                                                *)
(***************************************************************************)
\* generate_sample of any sampler: a draw may lie before the origin.
AnySampler_generate_sample(sampler, n) ==
    IF n >= MaxLen THEN {sampler.t_min + Beyond}
    ELSE ExpCDFSampler_generate_sample(sampler, n) \cup {sampler.t_min - 1}

\* One pass of run()'s loop, with such a sampler.
RunIterAnySampler ==
    /\ scenario.pc = "loop"
    /\ run_continues(scenario)
    /\ \E recall \in Student_recall(scenario.student, scenario.item_next, scenario.t_next),
          it \in Items :
         \E t_next \in AnySampler_generate_sample(
                           [scenario.exp_sampler EXCEPT !.t_min = scenario.t_next],
                           scenario.idx + 1) :
            scenario' = run_body(scenario, recall, t_next, it)
    /\ UNCHANGED <<tf_vars, opts, global_step, tm>>
    /\ UNCHANGED outside_teacher

NextAnySampler ==
    \/ MkScenario
    \/ Run
    \/ RunIterAnySampler
    \/ RunExit

SpecAnySampler == Init /\ [][NextAnySampler]_vars

Accessors == {"get_all_c_is", "get_last_interval", "get_all_time_deltas",
              "get_all_hidden_states", "get_num_events"}

\* A variant without the check, as when assertions are compiled away.
assert_init_skipped(s) == TRUE

\* assert self._init
assert_init(s) == s.inited

\* What a call of an accessor returns or raises.
Scenario_access(s, op) ==
    IF ~assert_init(s) THEN [kind |-> "AssertionError"]
    ELSE [kind |-> "value",
          value |-> CASE op = "get_all_c_is" -> get_all_c_is(s)
                      [] op = "get_last_interval" -> get_last_interval(s)
                      [] op = "get_all_time_deltas" -> get_all_time_deltas(s)
                      [] op = "get_all_hidden_states" -> get_all_hidden_states(s)
                      [] op = "get_num_events" -> get_num_events(s)]

\* The one Scenario of this life is built.
AccessMkScenario ==
    /\ scenario.pc = "none"
    /\ \E seed \in Seeds : scenario' = mk_scenario_from_teacher(seed)
    /\ UNCHANGED <<tf_vars, opts, global_step, tm>>
    /\ UNCHANGED outside_teacher

\* A caller invokes an accessor, before run() or after it has returned.
AccessCall ==
    /\ scenario.pc \in {"created", "done"}
    /\ \E op \in Accessors :
         accessed' = [pc |-> "called", op |-> op] @@ Scenario_access(scenario, op)
    /\ UNCHANGED <<teacher_vars, trainer_vars, broadcaster_vars, combiner_vars,
                   restore_vars, launcher_vars, student_obj, t_feed, calc, policy>>

\* A caller invokes run() on a Scenario whose run() has returned:
\* 'assert not self._init' fails before anything is touched.
AccessRunAgain ==
    /\ scenario.pc = "done"
    /\ scenario.inited
    /\ accessed' = [pc |-> "called", op |-> "run", kind |-> "AssertionError"]
    /\ UNCHANGED <<teacher_vars, trainer_vars, broadcaster_vars, combiner_vars,
                   restore_vars, launcher_vars, student_obj, t_feed, calc, policy>>

NextAccess ==
    \/ AccessMkScenario
    \/ Run
    \/ RunIter
    \/ RunExit
    \/ AccessCall
    \/ AccessRunAgain

SpecAccess == Init /\ [][NextAccess]_vars

\* C25: a Scenario moves only from constructed to running to terminated;
\* run() starts only on a Scenario whose run() was never called, a call on
\* any other fails its assertion and leaves the Scenario as it is; an
\* accessor fails its assertion exactly when run() has not been called, and
\* changes nothing.
C25_Lifecycle ==
    [][/\ scenario'.pc # scenario.pc =>
            /\ <<scenario.pc, scenario'.pc>> \in
                  {<<"none", "created">>, <<"none", "failed">>,
                   <<"created", "loop">>, <<"loop", "done">>}
            /\ scenario'.pc = "loop" => (~scenario.inited /\ scenario'.inited)
       /\ (scenario.pc \in {"loop", "done"} /\ scenario'.pc \in {"loop", "done"}) =>
            scenario'.inited
       /\ (accessed' # accessed /\ accessed'.op = "run") =>
            /\ accessed'.kind = "AssertionError"
            /\ scenario.inited
            /\ scenario' = scenario
       /\ (accessed' # accessed /\ accessed'.op \in Accessors) =>
            /\ scenario' = scenario
            /\ accessed'.kind = "AssertionError" <=> scenario.pc = "created"
            /\ accessed'.kind = "value" <=> scenario.pc = "done"]_vars

\* C25 witness: after a run that recorded an event, a second run() was
\* rejected; the trajectory is still there.
C25_Witness ==
    /\ accessed.pc = "called"
    /\ accessed.op = "run"
    /\ accessed.kind = "AssertionError"
    /\ scenario.pc = "done"
    /\ Len(scenario.items) >= 1

(***************************************************************************)
(* A Student on its own: any sequence of reviews (exp_teacher.py).         *)
(***************************************************************************)
\* The times of the reviews: they do not go back.
ReviewTimes == {0, 1, 2}

\* scenario_opts['alphas'], scenario_opts['betas'], in percent: the rates of
\* the rollouts, and rates that reach the clamp within a few reviews.
StudentRates ==
    { [alphas |-> alphas, betas |-> betas],
      [alphas |-> [i \in Items |-> IF i = 0 THEN 50 ELSE 100],
       betas |-> [i \in Items |-> IF i = 0 THEN 1900 ELSE 100]] }

\* Scenario.__init__ builds the Student with n_0s = np.ones_like(alphas).
StudentBuild ==
    /\ student_obj.pc = "none"
    /\ \E seed \in Seeds, rates \in StudentRates :
         student_obj' = [pc |-> "built",
                         s |-> Student__init__([i \in Items |-> NsOne],
                                               rates.alphas, rates.betas, seed * 2)]
    /\ UNCHANGED <<teacher_vars, trainer_vars, broadcaster_vars, combiner_vars,
                   restore_vars, launcher_vars, accessed, t_feed, calc, policy>>

\* student.review(item, cur_time): recall is drawn, ns[item] is scaled and
\* clamped, the review time is stored, recall is returned.
StudentReview ==
    /\ student_obj.pc \in {"built", "reviewed"}
    /\ \E item \in Items, cur_time \in ReviewTimes :
         /\ \A j \in Items : student_obj.s.last_review_times[j] <= cur_time
         /\ \E recall \in Student_recall(student_obj.s, item, cur_time) :
              student_obj' = [pc |-> "reviewed",
                              s |-> Student_review(student_obj.s, item, cur_time, recall),
                              item |-> item, cur_time |-> cur_time, recall |-> recall]
    /\ UNCHANGED <<teacher_vars, trainer_vars, broadcaster_vars, combiner_vars,
                   restore_vars, launcher_vars, accessed, t_feed, calc, policy>>

InitStudent ==
    /\ TeacherUnused
    /\ TrainerUnused
    /\ BroadcasterUnused
    /\ CombinerUnused
    /\ RestoreUnused
    /\ LauncherUnused
    /\ OthersUnused

NextStudent ==
    \/ StudentBuild
    \/ StudentReview

SpecStudent == InitStudent /\ [][NextStudent]_vars

\* C29: after any sequence of reviews every ns[item] lies in [1e-6, 1e2];
\* a review of item i multiplies ns[i] by (1 - alphas[i]) on a successful
\* recall and by (1 + betas[i]) otherwise, then clamps it, sets
\* last_review_times[i] to the review time and leaves ns[j] and
\* last_review_times[j] of every other item j as they were.
C29_ReviewClampsAndFrames ==
    [][(student_obj' # student_obj /\ student_obj'.pc = "reviewed") =>
          LET before == student_obj.s
              after == student_obj'.s
              i == student_obj'.item
              factor == IF student_obj'.recall
                        THEN 100 - before.alphas[i] ELSE 100 + before.betas[i]
              scaled == MulPercent(before.ns[i], factor)
          IN /\ \A j \in Items : after.ns[j] >= NsMin /\ after.ns[j] <= NsMax
             /\ after.ns[i] = (IF scaled < NsMin THEN NsMin
                               ELSE IF scaled > NsMax THEN NsMax ELSE scaled)
             /\ after.last_review_times[i] = student_obj'.cur_time
             /\ \A j \in Items \ {i} :
                  /\ after.ns[j] = before.ns[j]
                  /\ after.last_review_times[j] = before.last_review_times[j]
             /\ after.alphas = before.alphas /\ after.betas = before.betas]_vars

\* C29 witness: reviews have driven one item's rate to the upper clamp and
\* the other's to the lower one.
C29_Witness ==
    /\ student_obj.pc = "reviewed"
    /\ student_obj.s.ns[0] = NsMax
    /\ student_obj.s.ns[1] = NsMin

(***************************************************************************)
(* The teacher's get_feed_dict(teacher, scenarios) on the rollouts of a    *)
(* train_many iteration (exp_teacher.py).                                  *)
(***************************************************************************)
\* tau=15.0
tau == 15

\* The values -s.reward(tau) can take, times the number of items: one draw
\* of student.recall(item, T + tau) per item.
Scenario_reward(s) ==
    { Cardinality(rec) : rec \in { r \in SUBSET Items :
          \A i \in Items \ r : FALSE \in Student_recall(s.student, i, s.T + tau) } }

MaxOf(S) == CHOOSE x \in S : \A y \in S : y <= x

\* A row of a np.zeros array of the given width whose first Len(vals)
\* positions are assigned vals.
padded_row(vals, width) ==
    [k \in 1 .. width |-> IF k <= Len(vals) THEN vals[k] ELSE 0]

\* A variant that copies the time deltas of get_all_time_deltas(), the last
\* interval included.
teacher_feed_t_deltas_all(scen, batch_len) == get_all_time_deltas(scen)

\* batch_t_deltas[idx, 0:batch_len] = scen.time_deltas
teacher_feed_t_deltas(scen, batch_len) == SubSeq(scen.time_deltas, 1, batch_len)

\* get_feed_dict(teacher, scenarios), for one draw of the rewards.
teacher_get_feed_dict(scenarios, rewards) ==
    LET batch_size == Len(scenarios)
        max_events == MaxOf({ get_num_events(scenarios[i]) : i \in 1 .. batch_size })
        batch_seq_len == [i \in 1 .. batch_size |-> get_num_events(scenarios[i])]
    IN [pc |-> "done",
        shape |-> <<batch_size, max_events>>,
        rewards |-> [i \in 1 .. batch_size |-> -rewards[i]],
        last_interval |-> [i \in 1 .. batch_size |-> get_last_interval(scenarios[i])],
        seq_len |-> batch_seq_len,
        recalls |-> [i \in 1 .. batch_size |-> padded_row(scenarios[i].recalls, max_events)],
        b_idxes |-> [i \in 1 .. batch_size |-> padded_row(scenarios[i].items, max_events)],
        t_deltas |-> [i \in 1 .. batch_size |->
                        padded_row(teacher_feed_t_deltas(scenarios[i], batch_seq_len[i]),
                                   max_events)],
        init_h |-> [i \in 1 .. batch_size |-> 0]]

\* f_d = get_feed_dict(self, scenarios), once the rollouts are listed.
TeacherGetFeedDict ==
    /\ tm.pc = "rollouts"
    /\ scenarios_listed
    /\ t_feed.pc = "none"
    /\ \E rewards \in [1 .. Len(tm.scenarios) -> 0 .. Cardinality(Items)] :
         /\ \A i \in 1 .. Len(tm.scenarios) : rewards[i] \in Scenario_reward(tm.scenarios[i])
         /\ t_feed' = teacher_get_feed_dict(tm.scenarios, rewards)
    /\ UNCHANGED <<teacher_vars, trainer_vars, broadcaster_vars, combiner_vars,
                   restore_vars, launcher_vars, accessed, student_obj, calc, policy>>

NextTeacherFeed ==
    \/ TrainManyBegin
    \/ TrainMkScenario
    \/ TrainRun
    \/ RunIter
    \/ RunExit
    \/ TrainCollect
    \/ TeacherGetFeedDict

SpecTeacherFeed == Init /\ [][NextTeacherFeed]_vars

\* C23: the feed dict of a non-empty list of completed scenarios has arrays
\* of shape (B, max_events), B the number of scenarios and max_events the
\* largest event count; seq_len[i] is scenario i's event count; the
\* positions below it hold the scenario's time deltas, items and recalls
\* in order, the others zero; last_interval[i] is its get_last_interval().
C23_FeedShapeAndPadding ==
    t_feed.pc = "done" =>
        LET B == Len(tm.scenarios)
            n(i) == Len(tm.scenarios[i].items)
            me == t_feed.shape[2]
        IN /\ t_feed.shape[1] = B
           /\ \A i \in 1 .. B : n(i) <= me
           /\ \E i \in 1 .. B : n(i) = me
           /\ \A i \in 1 .. B :
                /\ t_feed.seq_len[i] = n(i)
                /\ t_feed.last_interval[i] = get_last_interval(tm.scenarios[i])
                /\ Len(t_feed.t_deltas[i]) = me
                /\ Len(t_feed.b_idxes[i]) = me
                /\ Len(t_feed.recalls[i]) = me
                /\ \A k \in 1 .. me :
                     IF k <= n(i)
                     THEN /\ t_feed.t_deltas[i][k] = tm.scenarios[i].time_deltas[k]
                          /\ t_feed.b_idxes[i][k] = tm.scenarios[i].items[k]
                          /\ t_feed.recalls[i][k] = tm.scenarios[i].recalls[k]
                     ELSE /\ t_feed.t_deltas[i][k] = 0
                          /\ t_feed.b_idxes[i][k] = 0
                          /\ t_feed.recalls[i][k] = 0

\* C23 witness: a feed dict of two scenarios with different event counts,
\* the shorter one with an event, so that its row is padded.
C23_Witness ==
    /\ t_feed.pc = "done"
    /\ Len(tm.scenarios) = 2
    /\ Len(tm.scenarios[1].items) = 2
    /\ Len(tm.scenarios[2].items) = 1
    /\ tm.scenarios[1].time_deltas[2] > 0
    /\ tm.scenarios[2].items[1] = 1
    /\ get_last_interval(tm.scenarios[2]) > 0

(***************************************************************************)
(* ExpRecurrentTeacher.calc_u (exp_teacher.py): the intensity u(t) of      *)
(* every trajectory of a batch at the given times.  Indices are 1-based    *)
(* here; abs_idx counts the events passed, as in the source.               *)
(***************************************************************************)
MaxCalcEvents == 2      \* the most events of a trajectory given to calc_u

CalcStarts == {0, 1}            \* batch_time_start[b]
CalcDeltas == {1, 2}            \* the time deltas of the events
CalcLastIntervals == {1}        \* tf_batch_last_interval
times == <<1, 2, 4>>            \* the times u is asked at

CalcTrajectories ==
    [t_deltas : UNION { [1 .. n -> CalcDeltas] : n \in 0 .. MaxCalcEvents },
     last_interval : CalcLastIntervals]

\* The c of trajectory b in force after abs_idx events, as the session
\* computes it (calc_u_c_is_init, calc_u_c_is_rest): told apart by its value.
tf_c_is(b, abs_idx) == 10 * b + abs_idx

\* tf_seq_len: the events plus the survival term.
tf_seq_len(traj) == Len(traj.t_deltas) + 1

\* tf_t_deltas[idx] after the first loop: the fed deltas, zeros up to the
\* appended column, and last_intervals[idx] in place of the zero at
\* tf_seq_len[idx] - 1.
tf_t_deltas(traj, max_events) ==
    [k \in 1 .. max_events + 1 |->
        IF k <= Len(traj.t_deltas) THEN traj.t_deltas[k]
        ELSE IF k = tf_seq_len(traj) THEN traj.last_interval ELSE 0]

\* The inner while loop: the cursor after it, for the time t.
RECURSIVE advance_cursor(_, _, _, _, _)
advance_cursor(row, seq_len, abs_time, abs_idx, t) ==
    IF abs_idx < seq_len - 1 /\ abs_time + row[abs_idx + 1] < t
    THEN advance_cursor(row, seq_len, abs_time + row[abs_idx + 1], abs_idx + 1, t)
    ELSE [abs_time |-> abs_time, abs_idx |-> abs_idx]

\* calc_u up to the loop over batch_idx: the arrays are read from the
\* session, the survival interval is put in place, LL and loss are computed
\* by a sampler per trajectory; idx is left at the last index of its loop.
CalcBegin ==
    /\ calc.pc = "called"
    /\ LET B == calc.batch_size
           max_events == MaxOf({ Len(calc.traj[b].t_deltas) : b \in 1 .. B })
       IN calc' = [calc EXCEPT
                     !.pc = "u_loop",
                     !.tf_seq_len = [b \in 1 .. B |-> tf_seq_len(calc.traj[b])],
                     !.tf_t_deltas = [b \in 1 .. B |-> tf_t_deltas(calc.traj[b], max_events)],
                     !.sampler_t_min = [b \in 1 .. B |-> calc.batch_time_start[b]],
                     !.idx = B,
                     !.batch_idx = 0,
                     !.u = [b \in 1 .. B |-> [k \in 1 .. Len(times) |-> 0]]]
    /\ UNCHANGED <<teacher_vars, trainer_vars, broadcaster_vars, combiner_vars,
                   restore_vars, launcher_vars, accessed, student_obj, t_feed, policy>>

\* for batch_idx in range(batch_size): the cursors of the next trajectory.
CalcTrajectory ==
    /\ calc.pc = "u_loop"
    /\ calc.batch_idx < calc.batch_size
    /\ calc' = [calc EXCEPT !.pc = "times",
                            !.batch_idx = calc.batch_idx + 1,
                            !.abs_time = calc.batch_time_start[calc.idx],
                            !.abs_idx = 0,
                            !.c = tf_c_is(calc.batch_idx + 1, 0),
                            !.time_idx = 0]
    /\ UNCHANGED <<teacher_vars, trainer_vars, broadcaster_vars, combiner_vars,
                   restore_vars, launcher_vars, accessed, student_obj, t_feed, policy>>

\* for time_idx, t in enumerate(times): the cursor advances to t and
\* u[batch_idx, time_idx] = exp(c + wt * (t - abs_time)), kept as c and the
\* elapsed time.
CalcTime ==
    /\ calc.pc = "times"
    /\ calc.time_idx < Len(times)
    /\ LET b == calc.batch_idx
           t == times[calc.time_idx + 1]
           cur == advance_cursor(calc.tf_t_deltas[b], calc.tf_seq_len[b],
                                 calc.abs_time, calc.abs_idx, t)
           c == IF cur.abs_idx = calc.abs_idx THEN calc.c ELSE tf_c_is(b, cur.abs_idx)
       IN calc' = [calc EXCEPT !.time_idx = calc.time_idx + 1,
                               !.abs_time = cur.abs_time,
                               !.abs_idx = cur.abs_idx,
                               !.c = c,
                               !.u[b][calc.time_idx + 1] =
                                    [c |-> c, elapsed |-> t - cur.abs_time]]
    /\ UNCHANGED <<teacher_vars, trainer_vars, broadcaster_vars, combiner_vars,
                   restore_vars, launcher_vars, accessed, student_obj, t_feed, policy>>

\* The loop over times is exhausted: the next trajectory, or the return.
CalcTimesDone ==
    /\ calc.pc = "times"
    /\ calc.time_idx = Len(times)
    /\ calc' = [calc EXCEPT !.pc = IF calc.batch_idx < calc.batch_size
                                   THEN "u_loop" ELSE "returned"]
    /\ UNCHANGED <<teacher_vars, trainer_vars, broadcaster_vars, combiner_vars,
                   restore_vars, launcher_vars, accessed, student_obj, t_feed, policy>>

InitCalc ==
    /\ TeacherUnused
    /\ TrainerUnused
    /\ BroadcasterUnused
    /\ CombinerUnused
    /\ RestoreUnused
    /\ LauncherUnused
    /\ accessed = NoAccessed /\ student_obj = NoStudent /\ t_feed = NoTFeed
    /\ policy = NoPolicy
    /\ \E B \in BatchSizes :
         calc \in [pc : {"called"}, batch_size : {B},
                   batch_time_start : [1 .. B -> CalcStarts],
                   traj : [1 .. B -> CalcTrajectories],
                   tf_seq_len : {<<>>}, tf_t_deltas : {<<>>}, sampler_t_min : {<<>>},
                   idx : {0}, batch_idx : {0}, time_idx : {0},
                   abs_time : {0}, abs_idx : {0}, c : {0}, u : {<<>>}]

NextCalc ==
    \/ CalcBegin
    \/ CalcTrajectory
    \/ CalcTime
    \/ CalcTimesDone

SpecCalc == InitCalc /\ [][NextCalc]_vars

\* C27: the elapsed-time cursor of trajectory b starts at
\* batch_time_start[b], for every b and whatever the other start times are,
\* and the event cursor abs_idx never exceeds the trajectory's number of
\* events.
C27_CursorStartsAtOwnStart ==
    calc.pc = "times" =>
        /\ calc.time_idx = 0 => calc.abs_time = calc.batch_time_start[calc.batch_idx]
        /\ calc.abs_idx <= Len(calc.traj[calc.batch_idx].t_deltas)

(***************************************************************************)
(* cal_optimal_policy (train_ssp_mmc.py): value iteration over the         *)
(* half-life states.  A half-life base^e is kept as 100 * e (hundredths of *)
(* its logarithm to the base 1.01), a cost in millionths, a recall         *)
(* probability in ten-thousandths; indices are 0-based as in the source.   *)
(***************************************************************************)
max_index == 300
min_index == -250
index_len == max_index - min_index      \* len(halflife_list)

CostOne == 1000000          \* the cost 1.0
RecallOne == 10000          \* the probability 1.0
diff_min == 100000          \* 0.1: the decrease below which the loop breaks

h0 == -23141                \* 0.1 = 1.01 ^ (-231.41)
recall_shift == 505         \* 1 / (1 - alpha) = 1.01 ^ 5.05
forget_shift == -52         \* 1 / (1 + beta) = 1.01 ^ (-0.52)

NIters == {1, 2, 10000}     \* n_iter: the source's 10000, and runs cut short

halflife_list == [k \in 0 .. index_len - 1 |-> 100 * (min_index + k)]

cal_next_recall_halflife(halflife, recall) ==
    IF recall = 1 THEN halflife + recall_shift ELSE halflife + forget_shift

\* Python's round: to the nearest integer, a half to the even one.
round(x) ==
    LET whole == x \div 100
        rest == x % 100
    IN IF rest < 50 THEN whole
       ELSE IF rest > 50 THEN whole + 1
       ELSE IF whole % 2 = 0 THEN whole ELSE whole + 1

Min2(a, b) == IF a < b THEN a ELSE b
Max2(a, b) == IF a > b THEN a ELSE b

cal_halflife_index(s) ==
    Max2(Min2(max_index - min_index - 1, round(s) - min_index), 0)

cost_list_all_1000 == [k \in 0 .. index_len - 1 |-> 1000 * CostOne]

cost_list_init ==
    [k \in 0 .. index_len - 1 |-> IF k # index_len - 1 THEN 1000 * CostOne ELSE 0]

\* cost * recall, without leaving 32 bits.
MulRecall(cost, recall) ==
    (cost \div RecallOne) * recall + ((cost % RecallOne) * recall) \div RecallOne

\* for ivl in interval_list, from the interval of recall (k - 0.01) / 100 on:
\* the three lists after the loop.  The interval itself is
\* halflife * log(recall) / log(0.5) and is kept as its number k.
RECURSIVE try_intervals(_, _, _)
try_intervals(lists, h_index, k) ==
    IF k > 100 THEN lists
    ELSE LET halflife == halflife_list[h_index]
             recall == 100 * k - 1
             h_recall_index == cal_halflife_index(cal_next_recall_halflife(halflife, 1))
             h_forget_index == cal_halflife_index(cal_next_recall_halflife(halflife, 0))
             exp_stress == MulRecall(lists.cost_list[h_recall_index], recall)
                           + MulRecall(lists.cost_list[h_forget_index], RecallOne - recall)
                           + CostOne
         IN IF exp_stress < lists.cost_list[h_index]
            THEN try_intervals([cost_list |-> [lists.cost_list EXCEPT ![h_index] = exp_stress],
                                used_interval_list |-> [lists.used_interval_list EXCEPT ![h_index] = k],
                                recall_list |-> [lists.recall_list EXCEPT ![h_index] = recall]],
                               h_index, k + 1)
            ELSE try_intervals(lists, h_index, k + 1)

\* cal_optimal_policy up to its outer loop.
PolicyCall ==
    /\ policy.pc = "none"
    /\ \E n \in NIters :
         policy' = [pc |-> "for_i", n_iter |-> n,
                    cost_list |-> cost_list_init,
                    used_interval_list |-> [k \in 0 .. index_len - 1 |-> 0],
                    recall_list |-> [k \in 0 .. index_len - 1 |-> 0],
                    h0_index |-> cal_halflife_index(h0),
                    i |-> 0, h0_stress |-> 0, h_index |-> 0,
                    h_recall_index |-> 0, h_forget_index |-> 0, diffs |-> <<>>]
    /\ UNCHANGED <<teacher_vars, trainer_vars, broadcaster_vars, combiner_vars,
                   restore_vars, launcher_vars, accessed, student_obj, t_feed, calc>>

\* for i in range(n_iter): h0_stress = cost_list[h0_index].
PolicyIter ==
    /\ policy.pc = "for_i"
    /\ policy.i < policy.n_iter
    /\ policy' = [policy EXCEPT !.pc = "for_h",
                                !.h0_stress = policy.cost_list[policy.h0_index],
                                !.h_index = index_len - 2]
    /\ UNCHANGED <<teacher_vars, trainer_vars, broadcaster_vars, combiner_vars,
                   restore_vars, launcher_vars, accessed, student_obj, t_feed, calc>>

\* for h_index in reversed(range(0, index_len - 1)): one state's intervals.
PolicyState ==
    /\ policy.pc = "for_h"
    /\ policy.h_index >= 0
    /\ LET h_index == policy.h_index
           lists == try_intervals([cost_list |-> policy.cost_list,
                                   used_interval_list |-> policy.used_interval_list,
                                   recall_list |-> policy.recall_list], h_index, 50)
       IN policy' = [policy EXCEPT
                       !.cost_list = lists.cost_list,
                       !.used_interval_list = lists.used_interval_list,
                       !.recall_list = lists.recall_list,
                       !.h_recall_index = cal_halflife_index(
                            cal_next_recall_halflife(halflife_list[h_index], 1)),
                       !.h_forget_index = cal_halflife_index(
                            cal_next_recall_halflife(halflife_list[h_index], 0)),
                       !.h_index = h_index - 1]
    /\ UNCHANGED <<teacher_vars, trainer_vars, broadcaster_vars, combiner_vars,
                   restore_vars, launcher_vars, accessed, student_obj, t_feed, calc>>

\* diff = h0_stress - cost_list[h0_index]; if diff < 0.1: break.
PolicyDiff ==
    /\ policy.pc = "for_h"
    /\ policy.h_index < 0
    /\ LET diff == policy.h0_stress - policy.cost_list[policy.h0_index]
       IN policy' = [policy EXCEPT
                       !.diffs = Append(policy.diffs, diff),
                       !.pc = IF diff < diff_min THEN "returned" ELSE "for_i",
                       !.i = IF diff < diff_min THEN policy.i ELSE policy.i + 1]
    /\ UNCHANGED <<teacher_vars, trainer_vars, broadcaster_vars, combiner_vars,
                   restore_vars, launcher_vars, accessed, student_obj, t_feed, calc>>

\* range(n_iter) is exhausted: return used_interval_list.
PolicyExhausted ==
    /\ policy.pc = "for_i"
    /\ policy.i >= policy.n_iter
    /\ policy' = [policy EXCEPT !.pc = "returned"]
    /\ UNCHANGED <<teacher_vars, trainer_vars, broadcaster_vars, combiner_vars,
                   restore_vars, launcher_vars, accessed, student_obj, t_feed, calc>>

InitPolicy ==
    /\ TeacherUnused
    /\ TrainerUnused
    /\ BroadcasterUnused
    /\ CombinerUnused
    /\ RestoreUnused
    /\ LauncherUnused
    /\ OthersUnused

NextPolicy ==
    \/ PolicyCall
    \/ PolicyIter
    \/ PolicyState
    \/ PolicyDiff
    \/ PolicyExhausted

SpecPolicy == InitPolicy /\ [][NextPolicy]_vars

\* Half-lives from far below the first state to far above the last one.
SomeHalflives == { 997 * x + y : x \in -60 .. 60, y \in {0, 50, 150} }

PolicyCostsInRange ==
    policy.pc # "none" =>
        /\ \A k \in 0 .. index_len - 1 :
              policy.cost_list[k] >= 0 /\ policy.cost_list[k] <= 1000 * CostOne
        /\ policy.cost_list[index_len - 1] = 0
        /\ \A x \in {policy.h0_index, policy.h_recall_index, policy.h_forget_index} :
              x >= 0 /\ x <= index_len - 1

PolicyStops ==
    policy.pc # "none" =>
        /\ \A k \in 1 .. Len(policy.diffs) - 1 : policy.diffs[k] >= diff_min
        /\ Len(policy.diffs) <= policy.n_iter
        /\ policy.pc = "returned" =>
              \/ policy.diffs # <<>> /\ policy.diffs[Len(policy.diffs)] < diff_min
              \/ Len(policy.diffs) = policy.n_iter
        /\ policy.pc # "returned" =>
              /\ \A k \in 1 .. Len(policy.diffs) : policy.diffs[k] >= diff_min
              /\ policy.pc = "for_h" => Len(policy.diffs) < policy.n_iter

\* C30: every entry of cost_list only ever decreases and stays within
\* [0, 1000]; the terminal entry (index index_len - 1) is 0 and is never
\* written; every index cal_halflife_index returns for a positive half-life
\* lies in [0, index_len - 1]; the outer loop stops at the first iteration in
\* which the cost of the h0 state decreased by less than 0.1, or after n_iter
\* iterations.
C30_ValueIteration ==
    [][ /\ PolicyCostsInRange /\ PolicyCostsInRange'
        /\ PolicyStops /\ PolicyStops'
        /\ \A s \in SomeHalflives :
              cal_halflife_index(s) >= 0 /\ cal_halflife_index(s) <= index_len - 1
        /\ policy.pc # "none" =>
              \A k \in 0 .. index_len - 1 : policy'.cost_list[k] <= policy.cost_list[k]
      ]_vars

\* The run with the source's n_iter has broken off in its third iteration:
\* the h0 state's cost has come down from 1000 and the last states' lookups
\* were clamped.
C30_Witness ==
    /\ policy.pc = "returned"
    /\ policy.n_iter = 10000
    /\ Len(policy.diffs) = 3
    /\ policy.diffs[3] < diff_min
    /\ policy.cost_list[policy.h0_index] < 1000 * CostOne
    /\ policy.cost_list[policy.h0_index] > 0
    /\ policy.h_forget_index = 0
    /\ cal_halflife_index(cal_next_recall_halflife(halflife_list[index_len - 2], 1))
         = index_len - 1

====
